---- MODULE Spec2Model ----
(***************************************************************************)
(* A model of gdrivevault: the local mirror of a Google Drive folder.      *)
(*                                                                         *)
(*   Spec       the SQLite-backed FolderDatabase (refresh, updateDatabase, *)
(*              deleteRemovedFiles, updateLocalFilePath), one caller that  *)
(*              awaits every call before issuing the next                  *)
(*   SpecTree   FileFetcher.buildFolderTree, one step per loop iteration   *)
(*   SpecFetch  FileFetcher.getAllFolders and searchFilesInFolders against *)
(*              a paginating remote                                        *)
(*   SpecSync   refresh with fetchAllFiles spelled out request by request  *)
(*   SpecDownload  DriveFileManager.downloadFile and refresh, called one   *)
(*              after the other, over the files of the downloads directory *)
(*   SpecQuery  the filter expression searchFilesInFolders builds from a   *)
(*              text query, as the remote reads it                         *)
(*   SpecSearch FolderDatabase.search over stored names                    *)
(*   SpecManagers  two DriveFileManager instances for different folders    *)
(*   SpecAuth   authorize, run after run, over the token file              *)
(*   SpecOverlap  two refreshes in flight on one connection                *)
(*   SpecReaders  searches answered between the steps of a refresh         *)
(*   SpecLifecycle, SpecLifecycleOverlap  init and the public operations   *)
(*              of one manager, awaited one by one or overlapping          *)
(*   SpecDownloadOverlap  two downloads in flight on one manager           *)
(*   SpecStandalone  the buildFolderTree of file-manager.ts                *)
(*   SpecSchedule  the periodic refresh, by setTimeout or by setInterval   *)
(*   SpecChunk  chunkArray and the loop over its chunks                    *)
(***************************************************************************)
EXTENDS Integers, Sequences, FiniteSets, TLC

\* ---------------------------------------------------------------------
\* Bounds of the model
\* ---------------------------------------------------------------------

\* longest sequence of file records one fetch cycle returns
MaxFetch == 2

\* longest list of root folder ids given to buildFolderTree
MaxRoots == 2

\* longest list of folder ids given to searchFilesInFolders
MaxFolders == 6

\* most parent folders one remote file has
MaxFileParents == 2

\* most records the remote puts on one page
MaxPageLen == 2

\* longest text query
MaxTextLen == 3

\* ---------------------------------------------------------------------
\* Strings.  A string is a sequence of one-character strings; the empty
\* sequence stands for null / undefined / SQL NULL (all falsy in the code).
\* ---------------------------------------------------------------------

NullText == <<>>

\* /[-\w]{25,}/ : the shortest run of identifier characters that is an id
MinIdRun == 25

IdChars == {"a", "b", "c", "-", "_"}

Rep(ch, n) == [k \in 1..n |-> ch]

\* the file ids the remote can serve
FileIds == {Rep("a", MinIdRun), Rep("b", MinIdRun), Rep("c", MinIdRun + 1)}

\* webViewLink-shaped links for every id, and two links without an id
LinkOf(fileId) == <<"/", "d", "/">> \o fileId \o <<"/", "v">>

Links == {LinkOf(i) : i \in FileIds}
           \cup {<<"/", "d", "/">>, <<"/">> \o Rep("a", MinIdRun - 1) \o <<"/", "a">>}

IsIdRun(link, from, to) == \A k \in from..to : link[k] \in IdChars

\* const match = /[-\w]{25,}/.exec(link); return match ? match[0] : null
extractFileIdFromLink(link) ==
    LET starts == {s \in 1..(Len(link) - MinIdRun + 1) :
                       IsIdRun(link, s, s + MinIdRun - 1)}
    IN  IF starts = {} THEN NullText
        ELSE LET s == CHOOSE x \in starts : \A y \in starts : x <= y
                 e == CHOOSE x \in s..Len(link) :
                          /\ IsIdRun(link, s, x)
                          /\ (x = Len(link) \/ link[x + 1] \notin IdChars)
             IN  SubSeq(link, s, e)

\* path.join(this.downloadsPath, `${fileId}.pdf`)
DownloadPath(fileId) == <<"s", "/">> \o fileId \o <<".", "p", "d", "f">>

\* what a caller passes for each link: the id in it and the path of its download
LinkId == [link \in Links |-> extractFileIdFromLink(link)]

LinkPath == [link \in Links |-> DownloadPath(LinkId[link])]

\* JSON.stringify of an array of strings, as a sequence of tokens
JSONstringify(arr) ==
    <<"[">> \o [k \in 1..(2 * Len(arr) - 1) |->
                   IF k % 2 = 1 THEN arr[(k + 1) \div 2] ELSE ","] \o <<"]">>

\* JSON.parse of such a token sequence
JSONparse(text) == [k \in 1..((Len(text) - 1) \div 2) |-> text[2 * k]]

\* ---------------------------------------------------------------------
\* Records of the remote and rows of table files
\* ---------------------------------------------------------------------

\* the metadata one remote file can carry (name, parents, webViewLink)
Metas == { [name |-> "n1", parents |-> <<"f1">>, webViewLink |-> "l1"],
           [name |-> "n2", parents |-> <<"f2", "f1">>, webViewLink |-> "l2"] }

\* GoogleFile {id, name, parents, webViewLink}
GoogleFile == {[id |-> i, name |-> m.name, parents |-> m.parents,
                webViewLink |-> m.webViewLink] : i \in FileIds, m \in Metas}

RECURSIVE SeqsUpTo(_, _)
SeqsUpTo(S, n) ==
    IF n = 0 THEN {<<>>}
    ELSE LET shorter == SeqsUpTo(S, n - 1)
         IN  shorter \cup {Append(q, x) : q \in {r \in shorter : Len(r) = n - 1}, x \in S}

\* what fetchAllFiles can return as files
FetchResults == SeqsUpTo(GoogleFile, MaxFetch)

\* new Set(files.map(file => file.id))
IdsOf(files) == {files[k].id : k \in 1..Len(files)}

\* the record of fileId that is upserted last
LastOf(files, fileId) ==
    files[CHOOSE k \in 1..Len(files) :
              /\ files[k].id = fileId
              /\ \A j \in (k + 1)..Len(files) : files[j].id # fileId]

\* the callers of the store's operations
Procs == {1}

VARIABLES
    store,      \* table files as the connection sees it: id -> row
    txn,        \* [active, snapshot]: the connection's open transaction
    pc,         \* per caller: the await it is suspended at, or "idle"
    loc,        \* per caller: the locals of the call in flight / just ended
    ret,        \* per caller: the outcome of its last call
    prev,       \* files of the last successful refresh, no write since
    tree,       \* buildFolderTree: its arguments, locals and call stack
    fetch,      \* getAllFolders / searchFilesInFolders: the remote, the
                \* locals of the call and the pages served to it
    disk,       \* the downloads directory: path -> state of the file
    dl,         \* per caller of downloadFile: the await it is suspended
                \* at, its locals and the outcome of its last call
    hist,       \* the ids whose download has returned a path, and those
                \* of them whose row was stored ever since
    query,      \* searchFilesInFolders(folderIds, query): the text query
                \* and the filter expression built from it
    found,      \* FolderDatabase.search(query): the text and its result
    mgrs,       \* two DriveFileManager instances: their configurations, the
                \* database files they opened and their last operation
    auth,       \* authorize(config): the token and credentials files, the
                \* grant, the awaits of the run in flight and its outcome
    life,       \* one DriveFileManager: its initialized flag, the
                \* FolderDatabase instances it created, the one it holds,
                \* and the public calls in flight
    sched,      \* the periodic refresh: how it is scheduled, whether its
                \* timer is armed, and the refreshes it has triggered
    batch       \* chunkArray(array, size) as searchFilesInFolders uses
                \* it: the arguments, the chunks, the chunks queried

dbVars == <<store, txn, pc, loc, ret, prev>>

fileVars == <<disk, dl, hist>>

\* (with the text queries: the managers of the multiple-folder setup)
textVars == <<query, found, mgrs, auth, life, sched, batch>>

vars == <<store, txn, pc, loc, ret, prev, tree, fetch, disk, dl, hist, query, found,
          mgrs, auth, life, sched, batch>>

\* what the actions of one component leave alone
DbFrame == UNCHANGED <<tree, fetch, fileVars, textVars>>

TreeFrame == UNCHANGED <<dbVars, fetch, fileVars, textVars>>

FetchFrame == UNCHANGED <<dbVars, tree, fileVars, textVars>>

NoTxn == [active |-> FALSE, snapshot |-> <<>>]

NoLocals == [files |-> <<>>, existingIds |-> {}, fetchedIds |-> {}, newIds |-> {},
             i |-> 0, pre |-> <<>>, repeat |-> FALSE]

NoRet == [op |-> "none", ok |-> TRUE, totalFiles |-> 0, newFiles |-> 0]

NoPrev == [valid |-> FALSE, files |-> <<>>]

\* ---------------------------------------------------------------------
\* SQL statements
\* ---------------------------------------------------------------------

\* (mutant) the subquery yields the path the download of the id would have
SelectDownloadPath(s, fileId) == DownloadPath(fileId)

\* COALESCE((SELECT localPath FROM files WHERE id = ?), NULL)
SelectLocalPath(s, fileId) ==
    IF fileId \in DOMAIN s THEN s[fileId].localPath ELSE NullText

\* const parentsStr = file.parents ? JSON.stringify(file.parents) : null
\* (an array, even an empty one, is truthy)
ParentsStr(file) == JSONstringify(file.parents)

\* (mutant) INSERT OR REPLACE: the conflicting row is replaced as a whole
InsertOrReplace(s, file) ==
    [fileId \in DOMAIN s \cup {file.id} |->
        IF fileId = file.id
        THEN [name |-> file.name, parents |-> ParentsStr(file),
              webViewLink |-> file.webViewLink, localPath |-> NullText]
        ELSE s[fileId]]

\* insertOrUpdateStmt: INSERT ... ON CONFLICT(id) DO UPDATE SET name, parents,
\* webViewLink
InsertOrUpdate(s, file) ==
    IF file.id \in DOMAIN s
    THEN [s EXCEPT ![file.id] = [@ EXCEPT !.name = file.name,
                                          !.parents = ParentsStr(file),
                                          !.webViewLink = file.webViewLink]]
    ELSE s @@ (file.id :> [name |-> file.name, parents |-> ParentsStr(file),
                           webViewLink |-> file.webViewLink,
                           localPath |-> SelectLocalPath(s, file.id)])

\* (mutant) the delete statement removes nothing
DeleteNothing(s, currentFileIds) == s

\* DELETE FROM files WHERE id NOT IN (...currentFileIds)
DeleteNotIn(s, currentFileIds) ==
    [fileId \in DOMAIN s \cap currentFileIds |-> s[fileId]]

\* (mutant) the empty set is not special-cased
DeleteNeverSkipped(currentFileIds) == FALSE

\* deleteRemovedFiles: if (currentFileIds.size === 0) { warn; return; }
DeleteSkipped(currentFileIds) == currentFileIds = {}

\* (mutant) every fetched id counts as new
NewIdsUnfiltered(fetchedIds, existingIds) == fetchedIds

\* new Set(Array.from(fetchedIds).filter(id => !existingIds.has(id)))
NewIds(fetchedIds, existingIds) == fetchedIds \ existingIds

\* (mutant) the fetched records are counted, not the distinct ids
TotalFilesUndeduplicated(files, fetchedIds) == Len(files)

\* const totalFiles = fetchedIds.size
TotalFiles(files, fetchedIds) == Cardinality(fetchedIds)

\* UPDATE files SET localPath = ? WHERE id = ?
UpdateLocalPath(s, fileId, localPath) ==
    IF fileId \in DOMAIN s THEN [s EXCEPT ![fileId].localPath = localPath] ELSE s

\* ---------------------------------------------------------------------
\* FolderDatabase.refresh, one action per await
\* ---------------------------------------------------------------------

Idle(p) == pc[p] = "idle"

\* the single caller awaits each call: a call starts when none is in flight
NoneInFlight == \A q \in Procs : Idle(q)

\* this.logger.info('Starting database refresh...')
RefreshStart(p) ==
    /\ NoneInFlight
    /\ pc' = [pc EXCEPT ![p] = "fetch"]
    /\ loc' = [loc EXCEPT ![p] = [NoLocals EXCEPT !.pre = store]]
    /\ ret' = [ret EXCEPT ![p] = NoRet]
    /\ UNCHANGED <<store, txn, prev>>

\* the catch of refresh: throw new Error('Failed to refresh the database.')
RefreshFailed(p) ==
    /\ pc' = [pc EXCEPT ![p] = "idle"]
    /\ ret' = [ret EXCEPT ![p] = [NoRet EXCEPT !.op = "refresh", !.ok = FALSE]]
    /\ prev' = NoPrev

\* const {files} = await this.googleDriveService.fetchAllFiles([this.folderId])
FetchAllFiles(p) ==
    /\ pc[p] = "fetch"
    /\ \/ \E files \in FetchResults :
            /\ loc' = [loc EXCEPT ![p].files = files,
                                  ![p].repeat = (prev.valid /\ prev.files = files)]
            /\ pc' = [pc EXCEPT ![p] = "getIds"]
            /\ prev' = NoPrev
            /\ UNCHANGED <<store, txn, ret>>
       \/ /\ RefreshFailed(p)
          /\ UNCHANGED <<store, txn, loc>>

\* const existingIds = await this.getExistingFileIds(); fetchedIds; newIds
GetExistingFileIds(p) ==
    /\ pc[p] = "getIds"
    /\ \/ LET existingIds == DOMAIN store
              fetchedIds == IdsOf(loc[p].files)
          IN  /\ loc' = [loc EXCEPT ![p].existingIds = existingIds,
                                    ![p].fetchedIds = fetchedIds,
                                    ![p].newIds = NewIds(fetchedIds, existingIds)]
              /\ pc' = [pc EXCEPT ![p] = "begin"]
              /\ UNCHANGED <<store, txn, ret, prev>>
       \/ /\ RefreshFailed(p)
          /\ UNCHANGED <<store, txn, loc>>

\* updateDatabase: await this.db.run('BEGIN TRANSACTION;')
Begin(p) ==
    /\ pc[p] = "begin"
    /\ \/ /\ ~txn.active
          /\ txn' = [active |-> TRUE, snapshot |-> store]
          /\ pc' = [pc EXCEPT ![p] = IF loc[p].files = <<>> THEN "commit" ELSE "upsert"]
          /\ loc' = [loc EXCEPT ![p].i = 1]
       \/ /\ pc' = [pc EXCEPT ![p] = "rollback"]
          /\ UNCHANGED <<txn, loc>>
    /\ UNCHANGED <<store, ret, prev>>

\* updateDatabase: await this.insertOrUpdateStmt.run(...) for files[i]
UpsertStep(p) ==
    /\ pc[p] = "upsert"
    /\ \/ /\ store' = InsertOrUpdate(store, loc[p].files[loc[p].i])
          /\ loc' = [loc EXCEPT ![p].i = @ + 1]
          /\ pc' = [pc EXCEPT ![p] = IF loc[p].i = Len(loc[p].files)
                                     THEN "commit" ELSE "upsert"]
       \/ /\ pc' = [pc EXCEPT ![p] = "rollback"]
          /\ UNCHANGED <<store, loc>>
    /\ UNCHANGED <<txn, ret, prev>>

\* refresh: return {totalFiles, newFiles}
RefreshReturn(p) ==
    /\ pc' = [pc EXCEPT ![p] = "idle"]
    /\ ret' = [ret EXCEPT ![p] = [op |-> "refresh", ok |-> TRUE,
                                  totalFiles |-> TotalFiles(loc[p].files, loc[p].fetchedIds),
                                  newFiles |-> Cardinality(loc[p].newIds)]]
    /\ prev' = [valid |-> TRUE, files |-> loc[p].files]

\* updateDatabase: await this.db.run('COMMIT;'), then deleteRemovedFiles up to
\* its first await (its early return when currentFileIds is empty)
Commit(p) ==
    /\ pc[p] = "commit"
    /\ \/ /\ txn.active
          /\ txn' = NoTxn
          /\ IF DeleteSkipped(loc[p].fetchedIds)
             THEN RefreshReturn(p)
             ELSE /\ pc' = [pc EXCEPT ![p] = "delete"]
                  /\ UNCHANGED <<ret, prev>>
       \/ /\ pc' = [pc EXCEPT ![p] = "rollback"]
          /\ UNCHANGED <<txn, ret, prev>>
    /\ UNCHANGED <<store, loc>>

\* (mutant) the catch of updateDatabase ends the transaction and keeps its
\* writes
RollbackKeeps(p) ==
    /\ pc[p] = "rollback"
    /\ txn' = NoTxn
    /\ RefreshFailed(p)
    /\ UNCHANGED <<store, loc>>

\* the catch of updateDatabase: await this.db.run('ROLLBACK;'); throw
Rollback(p) ==
    /\ pc[p] = "rollback"
    /\ IF txn.active
       THEN /\ store' = txn.snapshot
            /\ txn' = NoTxn
       ELSE UNCHANGED <<store, txn>>
    /\ RefreshFailed(p)
    /\ UNCHANGED loc

\* deleteRemovedFiles: await this.db.run(deleteStmt, Array.from(currentFileIds))
DeleteRemovedFiles(p) ==
    /\ pc[p] = "delete"
    /\ \/ /\ store' = DeleteNotIn(store, loc[p].fetchedIds)
          /\ RefreshReturn(p)
       \/ /\ RefreshFailed(p)
          /\ UNCHANGED store
    /\ UNCHANGED <<txn, loc>>

\* FolderDatabase.updateLocalFilePath(fileLink, localPath)
UpdateLocalFilePath(p, fileLink, localPath) ==
    /\ NoneInFlight
    /\ LET fileId == LinkId[fileLink]
       IN  IF fileId = NullText
           THEN /\ ret' = [ret EXCEPT ![p] = [NoRet EXCEPT !.op = "updateLocalFilePath",
                                                           !.ok = FALSE]]
                /\ UNCHANGED store
           ELSE \/ /\ store' = UpdateLocalPath(store, fileId, localPath)
                   /\ ret' = [ret EXCEPT ![p] = [NoRet EXCEPT !.op = "updateLocalFilePath"]]
                \/ /\ ret' = [ret EXCEPT ![p] = [NoRet EXCEPT !.op = "updateLocalFilePath",
                                                              !.ok = FALSE]]
                   /\ UNCHANGED store
    /\ loc' = [loc EXCEPT ![p] = NoLocals]
    /\ prev' = NoPrev
    /\ UNCHANGED <<txn, pc>>

\* ---------------------------------------------------------------------
\* FileFetcher.buildFolderTree
\* ---------------------------------------------------------------------

\* the folder ids of the remote
FolderIds == {"f1", "f2", "f3"}

\* drive_v3.Schema$File.parents of a folder: absent, or an array of ids
\* (includes() only asks for membership, so the array is kept as a set)
ParentsFields ==
    {[has |-> FALSE, ids |-> {}]} \cup {[has |-> TRUE, ids |-> P] : P \in SUBSET FolderIds}

\* new Map(folders.map(folder => [folder.id!, folder])): the entries in
\* insertion order, one per id
RECURSIVE MapsOver(_, _)
MapsOver(idSeq, fields) ==
    IF idSeq = <<>> THEN {<<>>}
    ELSE LET rest == MapsOver(Tail(idSeq), fields)
         IN  rest \cup {<<[id |-> Head(idSeq), parents |-> pf]>> \o m :
                           pf \in fields, m \in rest}

FolderMaps == MapsOver(<<"f1", "f2", "f3">>, ParentsFields)

RootLists == SeqsUpTo(FolderIds, MaxRoots)

NoTree == [folderMap |-> <<>>, rootFolderIds |-> <<>>, allFolderIds |-> <<>>,
           stack |-> <<>>, nextRoot |-> 1, state |-> "off",
           expansions |-> [f \in FolderIds |-> 0]]

ElemsOf(q) == {q[k] : k \in 1..Len(q)}

\* (mutant) the visited set is not consulted
NeverVisited(allFolderIds, id) == FALSE

\* if (allFolderIds.has(id)) return
Visited(allFolderIds, id) == id \in ElemsOf(allFolderIds)

\* const folder = folderMap.get(id); if (folder && folder.parents)
ScansChildren(folderMap, id) ==
    \E k \in 1..Len(folderMap) : folderMap[k].id = id /\ folderMap[k].parents.has

\* childFolder.parents && childFolder.parents.includes(id)
IsChildOf(childFolder, id) == childFolder.parents.has /\ id \in childFolder.parents.ids

\* processFolder(id) up to its for loop: the tree after the call is entered
ProcessFolder(t, id) ==
    IF Visited(t.allFolderIds, id) THEN t
    ELSE IF ScansChildren(t.folderMap, id)
         THEN [t EXCEPT !.allFolderIds = Append(@, id),
                        !.stack = <<[id |-> id, k |-> 1]>> \o @,
                        !.expansions[id] = @ + 1]
         ELSE [t EXCEPT !.allFolderIds = Append(@, id)]

\* rootFolderIds.forEach(id => processFolder(id)): the next root
TreeRoot ==
    /\ tree.state = "run"
    /\ tree.stack = <<>>
    /\ tree.nextRoot <= Len(tree.rootFolderIds)
    /\ tree' = ProcessFolder([tree EXCEPT !.nextRoot = @ + 1],
                             tree.rootFolderIds[tree.nextRoot])
    /\ TreeFrame

\* one iteration of for (const [childId, childFolder] of folderMap.entries())
TreeScan ==
    /\ tree.state = "run"
    /\ tree.stack # <<>>
    /\ LET top == Head(tree.stack)
           advanced == [tree EXCEPT !.stack[1].k = @ + 1]
       IN  /\ top.k <= Len(tree.folderMap)
           /\ tree' = IF IsChildOf(tree.folderMap[top.k], top.id)
                      THEN ProcessFolder(advanced, tree.folderMap[top.k].id)
                      ELSE advanced
    /\ TreeFrame

\* the for loop of processFolder is exhausted: the call returns
TreeUnwind ==
    /\ tree.state = "run"
    /\ tree.stack # <<>>
    /\ Head(tree.stack).k > Len(tree.folderMap)
    /\ tree' = [tree EXCEPT !.stack = Tail(@)]
    /\ TreeFrame

\* return Array.from(allFolderIds)
TreeReturn ==
    /\ tree.state = "run"
    /\ tree.stack = <<>>
    /\ tree.nextRoot > Len(tree.rootFolderIds)
    /\ tree' = [tree EXCEPT !.state = "done"]
    /\ TreeFrame

\* ---------------------------------------------------------------------
\* The standalone buildFolderTree of file-manager.ts: processFolder has no
\* test of allFolderIds
\* ---------------------------------------------------------------------

\* the nested calls of processFolder the call stack has room for
MaxDepth == 4

\* allFolderIds.add(id) of a Set: an id that is in it is not added again
SetAdd(allFolderIds, id) ==
    IF id \in ElemsOf(allFolderIds) THEN allFolderIds ELSE Append(allFolderIds, id)

\* const folder = folderMap.get(id); if (folder)
InMap(folderMap, id) == \E k \in 1..Len(folderMap) : folderMap[k].id = id

\* processFolder(id) up to its for loop; a call the stack has no room for
\* throws RangeError: Maximum call stack size exceeded, which nothing catches
StandaloneProcessFolder(t, id) ==
    IF Len(t.stack) >= MaxDepth THEN [t EXCEPT !.state = "overflow"]
    ELSE IF InMap(t.folderMap, id)
         THEN [t EXCEPT !.allFolderIds = SetAdd(@, id),
                        !.stack = <<[id |-> id, k |-> 1]>> \o @,
                        !.expansions[id] = @ + 1]
         ELSE [t EXCEPT !.allFolderIds = SetAdd(@, id)]

\* folderIds.forEach(id => processFolder(id)): the next root
StandaloneRoot ==
    /\ tree.state = "run"
    /\ tree.stack = <<>>
    /\ tree.nextRoot <= Len(tree.rootFolderIds)
    /\ tree' = StandaloneProcessFolder([tree EXCEPT !.nextRoot = @ + 1],
                                       tree.rootFolderIds[tree.nextRoot])
    /\ TreeFrame

\* one iteration of for (const [key, childFolder] of folderMap.entries())
StandaloneScan ==
    /\ tree.state = "run"
    /\ tree.stack # <<>>
    /\ LET top == Head(tree.stack)
           advanced == [tree EXCEPT !.stack[1].k = @ + 1]
       IN  /\ top.k <= Len(tree.folderMap)
           /\ tree' = IF IsChildOf(tree.folderMap[top.k], top.id)
                      THEN StandaloneProcessFolder(advanced, tree.folderMap[top.k].id)
                      ELSE advanced
    /\ TreeFrame

\* ---------------------------------------------------------------------
\* FileFetcher.getAllFolders and searchFilesInFolders against the remote
\* ---------------------------------------------------------------------

\* const chunkSize = 5
ChunkSize == 5

Min(a, b) == IF a < b THEN a ELSE b

\* for (let i = 0; i < array.length; i += size)
\*     chunks.push(array.slice(i, i + size))
RECURSIVE chunkLoop(_, _, _)
chunkLoop(array, size, i) ==
    IF i < Len(array)
    THEN <<SubSeq(array, i + 1, Min(i + size, Len(array)))>>
             \o chunkLoop(array, size, i + size)
    ELSE <<>>

\* (mutant) array.slice(i, i + size - 1): every chunk is cut one short
chunkArrayShortSlices(array, size) ==
    LET chunks == chunkLoop(array, size, 0)
    IN  [j \in 1..Len(chunks) |-> SubSeq(chunks[j], 1, Min(Len(chunks[j]), size - 1))]

\* chunkArray(array, size)
chunkArray(array, size) == chunkLoop(array, size, 0)

\* the folder ids searchFilesInFolders is called with
FolderName(k) == "f" \o ToString(k)

SearchFolders == {FolderName(k) : k \in 1..MaxFolders}

FolderLists == {[k \in 1..n |-> FolderName(k)] : n \in 0..MaxFolders}

\* the chunk sizes chunkArray is called with, up to the chunkSize of
\* searchFilesInFolders
ChunkSizes == 1..ChunkSize

NoBatch == [state |-> "off", array |-> <<>>, size |-> 0, chunks |-> <<>>,
            asked |-> 0]

BatchFrame ==
    UNCHANGED <<dbVars, tree, fetch, fileVars, query, found, mgrs, auth, life,
                sched>>

\* const folderIdChunks = chunkArray(folderIds, chunkSize)
ChunkFolderIds ==
    /\ batch.state = "run"
    /\ batch' = [batch EXCEPT !.chunks = chunkArray(batch.array, batch.size),
                              !.state = "query"]
    /\ BatchFrame

\* for (const chunk of folderIdChunks): the files of the next chunk are
\* asked for
AskChunk ==
    /\ batch.state = "query"
    /\ batch.asked < Len(batch.chunks)
    /\ batch' = [batch EXCEPT !.asked = @ + 1]
    /\ BatchFrame

\* the loop over the chunks is exhausted
AskedAll ==
    /\ batch.state = "query"
    /\ batch.asked = Len(batch.chunks)
    /\ batch' = [batch EXCEPT !.state = "done"]
    /\ BatchFrame

\* the remote's files: two whose parents vary, one trashed file under
\* every folder; each item with the remote's trashed flag
FileParentsFields ==
    {[has |-> FALSE, ids |-> {}]}
        \cup {[has |-> TRUE, ids |-> P] :
                 P \in {Q \in SUBSET SearchFolders : Cardinality(Q) <= MaxFileParents}}

RemoteFile(fileId, name, parents, trashed) ==
    [item |-> [id |-> fileId, name |-> name, parents |-> parents, webViewLink |-> "l1"],
     trashed |-> trashed]

RemoteFileLists ==
    {<<RemoteFile(Rep("a", MinIdRun), "n1", pa, FALSE),
       RemoteFile(Rep("c", MinIdRun + 1), "n1", [has |-> TRUE, ids |-> SearchFolders], TRUE),
       RemoteFile(Rep("b", MinIdRun), "n2", pb, FALSE)>> :
         pa \in FileParentsFields, pb \in FileParentsFields}

\* the remote's folders: any of f1..f3, without parents or under f1, and one
\* trashed folder
RemoteFolderLists ==
    {[k \in 1..Len(m) |-> [item |-> m[k], trashed |-> FALSE]]
         \o <<[item |-> [id |-> "f4", parents |-> [has |-> TRUE, ids |-> {"f1"}]],
               trashed |-> TRUE]>> :
       m \in MapsOver(<<"f1", "f2", "f3">>,
                      {[has |-> FALSE, ids |-> {}], [has |-> TRUE, ids |-> {"f1"}]})}

\* q: "mimeType='application/vnd.google-apps.folder' and trashed=false"
FolderQuery == [mimeTypeFolder |-> TRUE, parents |-> {}, notTrashed |-> TRUE]

\* q: `(${parentQueries}) and mimeType != 'application/vnd.google-apps.folder'
\*     and trashed = false`, parentQueries the disjunction over the chunk
FileQuery(chunk) ==
    [mimeTypeFolder |-> FALSE, parents |-> ElemsOf(chunk), notTrashed |-> TRUE]

\* the remote: all items the query selects, in the remote's order
Serve(f, q) ==
    LET KeepFolder(x) == q.notTrashed => ~x.trashed
        KeepFile(x) == /\ q.notTrashed => ~x.trashed
                       /\ x.item.parents.has
                       /\ x.item.parents.ids \cap q.parents # {}
        selected == IF q.mimeTypeFolder THEN SelectSeq(f.remoteFolders, KeepFolder)
                    ELSE SelectSeq(f.remoteFiles, KeepFile)
    IN  [k \in 1..Len(selected) |-> selected[k].item]

\* the remote: the pages it may answer one files.list request with; the
\* page token is the number of items served before it, 0 for none
Pages(result, pageToken) ==
    IF pageToken >= Len(result)
    THEN {[files |-> [has |-> FALSE, items |-> <<>>], nextPageToken |-> 0]}
    ELSE {[files |-> [has |-> TRUE,
                      items |-> SubSeq(result, pageToken + 1, pageToken + n)],
           nextPageToken |-> IF pageToken + n < Len(result) THEN pageToken + n ELSE 0] :
            n \in 1..Min(MaxPageLen, Len(result) - pageToken)}

\* {id: file.id!, name: file.name!, parents: file.parents || [],
\*  webViewLink: file.webViewLink || ''}
ToGoogleFile(file) ==
    [id |-> file.id, name |-> file.name,
     parents |-> IF file.parents.has THEN file.parents.ids ELSE {},
     webViewLink |-> file.webViewLink]

\* (mutant) the records of the page without a token are not appended
PageFilesUnlessLast(page) ==
    IF page.files.has /\ page.nextPageToken # 0
    THEN [k \in 1..Len(page.files.items) |-> ToGoogleFile(page.files.items[k])]
    ELSE <<>>

\* if (res.data.files) files.push(...res.data.files.map(...))
PageFiles(page) ==
    IF page.files.has
    THEN [k \in 1..Len(page.files.items) |-> ToGoogleFile(page.files.items[k])]
    ELSE <<>>

\* if (res.data.files) folders.push(...res.data.files)
PageFolders(page) == IF page.files.has THEN page.files.items ELSE <<>>

\* new Map(folders.map(folder => [folder.id!, folder])): one entry per id, at
\* the place of its first occurrence, with the value of its last
FoldersToMap(folders) ==
    LET firsts == SelectSeq([k \in 1..Len(folders) |-> k],
                            LAMBDA k : \A j \in 1..(k - 1) : folders[j].id # folders[k].id)
    IN  [n \in 1..Len(firsts) |->
            folders[CHOOSE k \in 1..Len(folders) :
                        /\ folders[k].id = folders[firsts[n]].id
                        /\ \A j \in (k + 1)..Len(folders) : folders[j].id # folders[k].id]]

NoFetch == [op |-> "none", state |-> "off", remoteFolders |-> <<>>, remoteFiles |-> <<>>,
            folderIds |-> <<>>, chunks |-> <<>>, chunk |-> 0, pageToken |-> 0,
            folders |-> <<>>, folderMap |-> <<>>, files |-> <<>>, log |-> <<>>]

\* what one request and its answer add to the record of the exchange
Exchange(f, page) ==
    [chunk |-> f.chunk, pageToken |-> f.pageToken, page |-> page]

\* getAllFolders: one turn of its do-while loop (a request and its answer),
\* and the return when the answer carries no token
GetAllFoldersPage ==
    /\ fetch.op = "getAllFolders"
    /\ fetch.state = "run"
    /\ \/ \E page \in Pages(Serve(fetch, FolderQuery), fetch.pageToken) :
            LET folders == fetch.folders \o PageFolders(page)
                last == page.nextPageToken = 0
            IN  fetch' = [fetch EXCEPT !.folders = folders,
                                       !.pageToken = page.nextPageToken,
                                       !.log = Append(@, Exchange(fetch, page)),
                                       !.state = IF last THEN "done" ELSE "run",
                                       !.folderMap = IF last THEN FoldersToMap(folders)
                                                     ELSE @]
       \/ fetch' = [fetch EXCEPT !.state = "failed"]
    /\ FetchFrame

\* searchFilesInFolders up to its first request
SearchBegin ==
    /\ fetch.op = "searchFilesInFolders"
    /\ fetch.state = "start"
    /\ LET chunks == chunkArray(fetch.folderIds, ChunkSize)
       IN  fetch' = [fetch EXCEPT !.chunks = chunks,
                                  !.chunk = IF chunks = <<>> THEN 0 ELSE 1,
                                  !.state = IF chunks = <<>> THEN "done" ELSE "run"]
    /\ FetchFrame

\* searchFilesInFolders: one turn of the do-while loop of the current chunk,
\* then the next chunk, or the return after the last
SearchPage ==
    /\ fetch.op = "searchFilesInFolders"
    /\ fetch.state = "run"
    /\ \/ \E page \in Pages(Serve(fetch, FileQuery(fetch.chunks[fetch.chunk])),
                            fetch.pageToken) :
            LET last == page.nextPageToken = 0
            IN  fetch' = [fetch EXCEPT !.files = @ \o PageFiles(page),
                                       !.pageToken = page.nextPageToken,
                                       !.log = Append(@, Exchange(fetch, page)),
                                       !.chunk = IF last THEN @ + 1 ELSE @,
                                       !.state = IF last /\ fetch.chunk = Len(fetch.chunks)
                                                 THEN "done" ELSE "run"]
       \/ fetch' = [fetch EXCEPT !.state = "failed"]
    /\ FetchFrame

\* ---------------------------------------------------------------------
\* FileFetcher.fetchAllFiles as refresh calls it: getAllFolders, then
\* buildFolderTree, then searchFilesInFolders, against one remote
\* ---------------------------------------------------------------------

\* refresh: fetchAllFiles([this.folderId])
RootFolderId == "f1"

\* buildFolderTree(folderMap, rootFolderIds) as a function of its arguments:
\* processFolder(id) and the for loop over folderMap.entries() from entry k
RECURSIVE processFolder(_, _, _), scanEntries(_, _, _, _)
processFolder(folderMap, allFolderIds, id) ==
    IF Visited(allFolderIds, id) THEN allFolderIds
    ELSE IF ScansChildren(folderMap, id)
         THEN scanEntries(folderMap, Append(allFolderIds, id), id, 1)
         ELSE Append(allFolderIds, id)

scanEntries(folderMap, allFolderIds, id, k) ==
    IF k > Len(folderMap) THEN allFolderIds
    ELSE scanEntries(folderMap,
                     IF IsChildOf(folderMap[k], id)
                     THEN processFolder(folderMap, allFolderIds, folderMap[k].id)
                     ELSE allFolderIds,
                     id, k + 1)

RECURSIVE forEachRoot(_, _, _)
forEachRoot(folderMap, allFolderIds, rootFolderIds) ==
    IF rootFolderIds = <<>> THEN allFolderIds
    ELSE forEachRoot(folderMap, processFolder(folderMap, allFolderIds, Head(rootFolderIds)),
                     Tail(rootFolderIds))

buildFolderTree(folderMap, rootFolderIds) == forEachRoot(folderMap, <<>>, rootFolderIds)

\* the remote's folders during one refresh: the root alone or with every
\* other folder under it, the root with or without a parents field
RemoteTrees ==
    {[k \in 1..n |->
         [item |-> [id |-> FolderName(k),
                    parents |-> IF k = 1 THEN rootParents
                                ELSE [has |-> TRUE, ids |-> {RootFolderId}]],
          trashed |-> FALSE]] :
       n \in {1, MaxFolders},
       rootParents \in {[has |-> FALSE, ids |-> {}], [has |-> TRUE, ids |-> {"f0"}]}}

\* the remote's files during one refresh: one file in the root or in two
\* folders of different chunks, one in the last folder or outside the tree
RemoteTreeFiles ==
    {<<RemoteFile(Rep("a", MinIdRun), "n1", [has |-> TRUE, ids |-> pa], FALSE),
       RemoteFile(Rep("b", MinIdRun), "n2", [has |-> TRUE, ids |-> pb], FALSE)>> :
         pa \in {{RootFolderId}, {FolderName(2), FolderName(MaxFolders)}},
         pb \in {{FolderName(MaxFolders)}, {"f0"}}}

\* the parents array of a fetched record, in the order of the folder names
ParentsArray(ids) ==
    SelectSeq([k \in 1..(MaxFolders + 1) |-> FolderName(k - 1)], LAMBDA f : f \in ids)

\* the files of fetchAllFiles' result as refresh receives them
FetchedFiles(files) ==
    [k \in 1..Len(files) |-> [files[k] EXCEPT !.parents = ParentsArray(@)]]

\* refresh starts and calls fetchAllFiles, which calls getAllFolders; the
\* remote holds some folders and files
RefreshCallsFetch(p) ==
    /\ RefreshStart(p)
    /\ \E remoteFolders \in RemoteTrees, remoteFiles \in RemoteTreeFiles :
          fetch' = [NoFetch EXCEPT !.op = "getAllFolders", !.state = "run",
                                   !.remoteFolders = remoteFolders,
                                   !.remoteFiles = remoteFiles]
    /\ UNCHANGED <<tree, fileVars, textVars>>

\* fetchAllFiles: const folderIds = await this.buildFolderTree(folderMap,
\* rootFolderIds), then the call of searchFilesInFolders(folderIds); the
\* record of the exchange goes on
FetchBuildFolderTree ==
    /\ fetch.op = "getAllFolders"
    /\ fetch.state = "done"
    /\ fetch' = [fetch EXCEPT !.op = "searchFilesInFolders", !.state = "start",
                              !.pageToken = 0,
                              !.folderIds = buildFolderTree(fetch.folderMap,
                                                            <<RootFolderId>>)]
    /\ FetchFrame

\* (mutant) the catch of fetchAllFiles returns what was fetched so far
FetchAllFilesSwallows(p) ==
    /\ pc[p] = "fetch"
    /\ fetch.state = "failed"
    /\ loc' = [loc EXCEPT ![p].files = FetchedFiles(fetch.files)]
    /\ pc' = [pc EXCEPT ![p] = "getIds"]
    /\ prev' = NoPrev
    /\ UNCHANGED <<store, txn, ret, tree, fetch, fileVars, textVars>>

\* the catch of fetchAllFiles: throw new Error(`Failed to fetch all files:
\* ...`), caught by refresh, which throws in turn
FetchAllFilesThrows(p) ==
    /\ pc[p] = "fetch"
    /\ fetch.state = "failed"
    /\ RefreshFailed(p)
    /\ UNCHANGED <<store, txn, loc, tree, fetch, fileVars, textVars>>

\* fetchAllFiles: return {folderMap, folderIds, files}
FetchAllFilesReturns(p) ==
    /\ pc[p] = "fetch"
    /\ fetch.op = "searchFilesInFolders"
    /\ fetch.state = "done"
    /\ LET files == FetchedFiles(fetch.files)
       IN  loc' = [loc EXCEPT ![p].files = files,
                              ![p].repeat = (prev.valid /\ prev.files = files)]
    /\ pc' = [pc EXCEPT ![p] = "getIds"]
    /\ prev' = NoPrev
    /\ UNCHANGED <<store, txn, ret, tree, fetch, fileVars, textVars>>

\* ---------------------------------------------------------------------
\* DriveFileManager.downloadFile, one action per await, and the files of
\* the downloads directory
\* ---------------------------------------------------------------------

\* the callers of downloadFile
Callers == {1}

\* the paths downloads are written to, one per file id
Paths == {DownloadPath(i) : i \in FileIds}

\* the states of a file of the downloads directory: no such file; created
\* or truncated, with none or some of the content written; all content
\* handed to the write stream, not all of it written; all content written
FileStates == {"absent", "partial", "flushing", "complete"}

\* the links downloadFile is called with: of a file the remote serves, of
\* one it never serves, and the links without an id
DownloadLinks == Links \ {LinkOf(Rep("b", MinIdRun))}

NoDownload == [pc |-> "idle", op |-> "none", fileLink |-> <<>>,
               cachedFilePath |-> NullText, transport |-> FALSE,
               ok |-> TRUE, error |-> "none", path |-> NullText,
               pre |-> <<>>, existed |-> FALSE, unlinked |-> FALSE,
               deleted |-> FALSE, streamEnded |-> FALSE,
               ever |-> FALSE, kept |-> FALSE]

NoHist == [ever |-> {}, kept |-> {}]

DownloadsIdle == \A d \in DOMAIN dl : dl[d].pc = "idle"

\* there is a file at path
OnDisk(path) == disk[path] # "absent"

\* (mutant) a recorded path is taken to exist
fileExistsAlways(path) == TRUE

\* DriveFileManager.fileExists(path): await fs.access(path) resolves
fileExists(path) == disk[path] # "absent"

\* (mutant) the store is asked whatever extractFileIdFromLink returned
NeverWithoutId(fileId) == FALSE

\* FolderDatabase.fileExists, getLocalFilePath: const fileId =
\* extractFileIdFromLink(fileLink); if (!fileId) return false / return null
WithoutId(fileId) == fileId = NullText

\* (mutant) getLocalFilePath returns null for every link
NoLocalPath(s, fileId) == NullText

\* getLocalFilePath: const result = await this.selectLocalPathStmt.get(
\* [fileId]); return result?.localPath || null
LocalPathOrNull(s, fileId) == SelectLocalPath(s, fileId)

\* a row is removed: its id is no longer one whose row was stored ever since
Forget(h, s) == [h EXCEPT !.kept = @ \cap DOMAIN s]

\* downloadFile throws: logger.error('Error downloading file:', err); throw err
Throws(d, error) ==
    dl' = [dl EXCEPT ![d].pc = "idle", ![d].ok = FALSE, ![d].error = error]

\* downloadFile returns a path
Returns(d, path) ==
    /\ dl' = [dl EXCEPT ![d].pc = "idle", ![d].ok = TRUE, ![d].path = path]
    /\ LET fileId == LinkId[dl[d].fileLink]
       IN  hist' = [ever |-> hist.ever \cup {fileId},
                    kept |-> (hist.kept \cup {fileId}) \cap DOMAIN store']

\* downloadFile(fileLink) is called (the manager is initialized)
DownloadFile(d, fileLink) ==
    /\ NoneInFlight
    /\ DownloadsIdle
    /\ dl' = [dl EXCEPT ![d] =
                 [NoDownload EXCEPT !.pc = "getLocalFilePath",
                                    !.op = "downloadFile",
                                    !.fileLink = fileLink,
                                    !.pre = store,
                                    !.existed = /\ LinkId[fileLink] # NullText
                                                /\ OnDisk(LinkPath[fileLink]),
                                    !.ever = LinkId[fileLink] \in hist.ever,
                                    !.kept = LinkId[fileLink] \in hist.kept]]
    /\ loc' = [p \in Procs |-> NoLocals]
    /\ ret' = [p \in Procs |-> NoRet]
    /\ prev' = NoPrev
    /\ UNCHANGED <<store, txn, pc, tree, fetch, disk, hist, textVars>>

\* const cachedFilePath = await this.folderDatabase.getLocalFilePath(fileLink)
GetLocalFilePath(d) ==
    /\ dl[d].pc = "getLocalFilePath"
    /\ LET fileId == LinkId[dl[d].fileLink]
           localPath == IF WithoutId(fileId) THEN NullText
                        ELSE LocalPathOrNull(store, fileId)
       IN  \/ dl' = [dl EXCEPT ![d].cachedFilePath = localPath,
                               ![d].pc = IF localPath # NullText THEN "access"
                                         ELSE "fileExists"]
           \/ /\ ~WithoutId(fileId)
              /\ Throws(d, "store")
    /\ UNCHANGED <<dbVars, tree, fetch, disk, hist, textVars>>

\* if (cachedFilePath && (await this.fileExists(cachedFilePath)))
\*     return cachedFilePath
CachedFileExists(d) ==
    /\ dl[d].pc = "access"
    /\ UNCHANGED <<dbVars, tree, fetch, disk, textVars>>
    /\ IF fileExists(dl[d].cachedFilePath)
       THEN Returns(d, dl[d].cachedFilePath)
       ELSE /\ dl' = [dl EXCEPT ![d].pc = "fileExists"]
            /\ UNCHANGED hist

\* (mutant) every id is taken to be stored
RowExistsAlways(s, fileId) == TRUE

\* FolderDatabase.fileExists: const result = await
\* this.checkFileExistsStmt.get([fileId]); return !!result
RowExists(s, fileId) == fileId \in DOMAIN s

\* const fileExists = await this.folderDatabase.fileExists(fileLink);
\* if (!fileExists) throw new Error('File not found in the database.');
\* then downloadFileFromGoogleDrive up to its await of mkdir
FileExists(d) ==
    /\ dl[d].pc = "fileExists"
    /\ LET fileId == LinkId[dl[d].fileLink]
       IN  \/ IF ~WithoutId(fileId) /\ RowExists(store, fileId)
              THEN dl' = [dl EXCEPT ![d].pc = "mkdir"]
              ELSE Throws(d, "notFound")
           \/ /\ ~WithoutId(fileId)
              /\ Throws(d, "store")
    /\ UNCHANGED <<dbVars, tree, fetch, disk, hist, textVars>>

\* downloadFileFromGoogleDrive: after mkdir, fs.createWriteStream(filePath)
\* creates or truncates the file, and this.drive.files.get(...) is issued
CreateWriteStream(d) ==
    /\ dl[d].pc = "mkdir"
    /\ \/ /\ disk' = [disk EXCEPT ![LinkPath[dl[d].fileLink]] = "partial"]
          /\ dl' = [dl EXCEPT ![d].pc = "get", ![d].transport = TRUE,
                              ![d].unlinked = FALSE]
       \/ /\ Throws(d, "download")
          /\ UNCHANGED disk
    /\ UNCHANGED <<dbVars, tree, fetch, hist, textVars>>

\* const res = await this.drive.files.get({fileId, alt: 'media'}, ...)
FilesGet(d) ==
    /\ dl[d].pc = "get"
    /\ \/ dl' = [dl EXCEPT ![d].pc = "pipe"]
       \/ Throws(d, "download")
    /\ UNCHANGED <<dbVars, tree, fetch, disk, hist, textVars>>

\* what a write through the stream of call d does to the file at its path:
\* nothing once the path was unlinked under the open stream
Written(d, state) ==
    IF dl[d].unlinked THEN disk
    ELSE [disk EXCEPT ![LinkPath[dl[d].fileLink]] = state]

\* (mutant) an error of the response stream resolves the promise
ResolvesOnError(d) == dl' = [dl EXCEPT ![d].pc = "updateLocalFilePath"]

\* res.data.on('error', ...): reject(new Error('Failed to download the
\* file.')), rethrown by the catch of downloadFileFromGoogleDrive
RejectsOnError(d) == Throws(d, "download")

\* res.data ... .pipe(dest): res.data.on('end', ...) resolves the promise
\* while the last writes are with the write stream; res.data.on('error',
\* ...) rejects it
PipeEnd(d) ==
    /\ dl[d].pc = "pipe"
    /\ \/ /\ disk' = Written(d, "flushing")
          /\ dl' = [dl EXCEPT ![d].pc = "updateLocalFilePath",
                              ![d].streamEnded = TRUE]
       \/ /\ RejectsOnError(d)
          /\ UNCHANGED disk
    /\ UNCHANGED <<dbVars, tree, fetch, hist, textVars>>

\* the write stream finishes: everything piped into it is in the file
DestFinish(path) ==
    /\ disk[path] = "flushing"
    /\ disk' = [disk EXCEPT ![path] = "complete"]
    /\ UNCHANGED <<dbVars, tree, fetch, dl, hist, textVars>>

\* (mutant) UPDATE files SET localPath = ? without the WHERE clause
RecordPathInAllRows(s, fileId, localPath) ==
    [i \in DOMAIN s |-> [s[i] EXCEPT !.localPath = localPath]]

\* (mutant) the path of a finished transfer is not recorded
RecordNothing(s, fileId, localPath) == s

\* this.updateLocalPathStmt.run([localPath, fileId]) as downloadFile calls it
RecordLocalPath(s, fileId, localPath) == UpdateLocalPath(s, fileId, localPath)

\* await this.folderDatabase.updateLocalFilePath(fileLink, localPath);
\* return localPath
DownloadUpdateLocalFilePath(d) ==
    /\ dl[d].pc = "updateLocalFilePath"
    /\ LET fileId == LinkId[dl[d].fileLink]
           localPath == LinkPath[dl[d].fileLink]
       IN  \/ /\ store' = RecordLocalPath(store, fileId, localPath)
              /\ prev' = NoPrev
              /\ Returns(d, localPath)
           \/ /\ Throws(d, "store")
              /\ UNCHANGED <<store, prev, hist>>
    /\ UNCHANGED <<txn, pc, loc, ret, tree, fetch, disk, textVars>>

\* someone else removes a file of the downloads directory
ExternalDelete(path) ==
    /\ OnDisk(path)
    /\ disk' = [disk EXCEPT ![path] = "absent"]
    /\ dl' = [d \in DOMAIN dl |->
                 IF dl[d].pc # "idle" /\ LinkPath[dl[d].fileLink] = path
                 THEN [dl[d] EXCEPT !.unlinked = TRUE, !.deleted = TRUE]
                 ELSE dl[d]]
    /\ UNCHANGED <<dbVars, tree, fetch, hist, textVars>>

\* what the remote holds when a manager that is used for downloads refreshes
DownloadFetchResults ==
    SeqsUpTo({f \in GoogleFile : f.name = "n1" /\ f.id # Rep("c", MinIdRun + 1)}, MaxFetch)

\* refreshDatabase between downloads: the steps of refresh
RefreshStep(p) ==
    /\ \/ /\ RefreshStart(p)
          /\ DownloadsIdle
          /\ dl' = [d \in DOMAIN dl |-> NoDownload]
       \/ /\ \/ FetchAllFiles(p) /\ loc'[p].files \in DownloadFetchResults
             \/ GetExistingFileIds(p)
             \/ Begin(p)
             \/ UpsertStep(p)
             \/ Commit(p)
             \/ Rollback(p)
             \/ DeleteRemovedFiles(p)
          /\ UNCHANGED dl
    /\ hist' = Forget(hist, store')
    /\ UNCHANGED <<tree, fetch, disk, textVars>>

\* ---------------------------------------------------------------------
\* Text queries: the filter expression of searchFilesInFolders and the
\* LIKE pattern of FolderDatabase.search
\* ---------------------------------------------------------------------

\* the characters of a text query: the quote, the backslash, the pattern
\* characters of LIKE, a blank and letters in both cases
TextChars == {"'", "\\", "%", "_", " ", "a", "A"}

\* the texts given to searchFilesInFolders
Queries == SeqsUpTo({"'", "\\", " ", "a"}, MaxTextLen)

\* the texts given to search
SearchTexts == SeqsUpTo(TextChars \ {" "}, MaxTextLen)

\* str.replace(/ch/g, by)
RECURSIVE ReplaceAll(_, _, _)
ReplaceAll(str, ch, by) ==
    IF str = <<>> THEN <<>>
    ELSE (IF Head(str) = ch THEN by ELSE <<Head(str)>>) \o ReplaceAll(Tail(str), ch, by)

\* escapeSingleQuotes: input.replace(/'/g, "''")
escapeSingleQuotes(input) == ReplaceAll(input, "'", <<"'", "'">>)

\* escapeQueryString: str.replace(/\\/g, '\\\\').replace(/'/g, "\\'")
escapeQueryString(str) ==
    ReplaceAll(ReplaceAll(str, "\\", <<"\\", "\\">>), "'", <<"\\", "'">>)

\* GoogleDriveService.searchFilesInFolders: query.replace(/'/g, "\\'")
escapeQuotes(str) == ReplaceAll(str, "'", <<"\\", "'">>)

\* query.trim()
RECURSIVE TrimStart(_)
TrimStart(str) ==
    IF str # <<>> /\ Head(str) = " " THEN TrimStart(Tail(str)) ELSE str

Reverse(str) == [k \in 1..Len(str) |-> str[Len(str) + 1 - k]]

trim(str) == Reverse(TrimStart(Reverse(TrimStart(str))))

\* the two implementations of searchFilesInFolders
Implementations == {"FileFetcher", "GoogleDriveService"}

\* the folder ids of the chunk the filter is built for
QueryChunk == <<"f1", "f2">>

\* chunk.map(id => `'${id}' in parents`).join(' or '), the clauses as tokens
ParentQueries(chunk) ==
    [k \in 1..(2 * Len(chunk) - 1) |->
        IF k % 2 = 1 THEN "'" \o chunk[(k + 1) \div 2] \o "' in parents" ELSE " or "]

\* `(${parentQueries}) and mimeType != 'application/vnd.google-apps.folder'
\*  and trashed = false`
BaseQueryString(chunk) ==
    <<"(">> \o ParentQueries(chunk)
        \o <<")", " and ", "mimeType != folder", " and ", "trashed = false">>

\* const sanitizedQuery = ... of the implementation
SanitizedQuery(implementation, text) ==
    IF implementation = "FileFetcher" THEN escapeQueryString(text)
    ELSE escapeQuotes(text)

\* if (query.trim() !== '') queryString += ` and name contains
\* '${sanitizedQuery}'`: the text character by character between the quotes
QueryString(implementation, chunk, text) ==
    BaseQueryString(chunk)
        \o (IF trim(text) # <<>>
            THEN <<" and ", "name contains ", "'">>
                     \o SanitizedQuery(implementation, text) \o <<"'">>
            ELSE <<>>)

\* the remote reads a quoted literal from position k of q, the opening
\* quote read: a backslash takes the next character as it is, a quote
\* closes the literal
RECURSIVE ReadLiteral(_, _, _)
ReadLiteral(q, k, value) ==
    IF k > Len(q) THEN [closed |-> FALSE, value |-> value, next |-> k]
    ELSE IF q[k] = "\\"
         THEN IF k + 1 > Len(q)
              THEN [closed |-> FALSE, value |-> value, next |-> k + 1]
              ELSE ReadLiteral(q, k + 2, Append(value, q[k + 1]))
         ELSE IF q[k] = "'"
              THEN [closed |-> TRUE, value |-> value, next |-> k + 1]
              ELSE ReadLiteral(q, k + 1, Append(value, q[k]))

\* the filter the remote reads from q: the clauses before the name clause,
\* the literal of the name clause, and what follows the literal
ReadFilter(q) ==
    LET named == {k \in 1..Len(q) : q[k] = "name contains "}
    IN  IF named = {}
        THEN [clauses |-> q, name |-> [has |-> FALSE, closed |-> FALSE, value |-> <<>>],
              rest |-> <<>>]
        ELSE LET at == CHOOSE k \in named : \A j \in named : k <= j
                 lit == ReadLiteral(q, at + 2, <<>>)
             IN  [clauses |-> SubSeq(q, 1, at - 2),
                  name |-> [has |-> TRUE, closed |-> lit.closed, value |-> lit.value],
                  rest |-> SubSeq(q, lit.next, Len(q))]

NoQuery == [state |-> "off", implementation |-> "none", text |-> <<>>,
            queryString |-> <<>>]

\* searchFilesInFolders builds the filter expression of a request
BuildQueryString ==
    /\ query.state = "called"
    /\ query' = [query EXCEPT !.state = "built",
                              !.queryString = QueryString(query.implementation,
                                                          QueryChunk, query.text)]
    /\ UNCHANGED <<dbVars, tree, fetch, fileVars, found, mgrs, auth, life, sched, batch>>

\* the names of the stored rows search is run over
Names == {<<"a">>, <<"A", "'", "a">>, <<"'", "'">>, <<"a", "\\", "%">>, <<"_", "A">>}

\* the stores search is run over: two rows, each with one of the names
SearchStores ==
    {(Rep("a", MinIdRun) :> [name |-> n1, parents |-> JSONstringify(<<"f1">>),
                              webViewLink |-> "l1", localPath |-> NullText])
         @@ (Rep("b", MinIdRun) :> [name |-> n2, parents |-> NullText,
                                    webViewLink |-> "l2",
                                    localPath |-> DownloadPath(Rep("b", MinIdRun))]) :
       n1 \in Names, n2 \in Names}

\* LIKE compares ASCII letters without regard to case
Lower(ch) == IF ch = "A" THEN "a" ELSE ch

\* str LIKE pattern, without an ESCAPE clause: % stands for any characters,
\* _ for one character
RECURSIVE Like(_, _)
Like(pattern, str) ==
    IF pattern = <<>> THEN str = <<>>
    ELSE IF Head(pattern) = "%"
         THEN Like(Tail(pattern), str) \/ (str # <<>> /\ Like(pattern, Tail(str)))
         ELSE /\ str # <<>>
              /\ Head(pattern) = "_" \/ Lower(Head(pattern)) = Lower(Head(str))
              /\ Like(Tail(pattern), Tail(str))

\* const queryString = `%${escapedQuery}%`
LikePattern(text) == <<"%">> \o escapeSingleQuotes(text) \o <<"%">>

\* rows.map(file => ({...file, parents: file.parents ?
\* JSON.parse(file.parents) : null}))
DatabaseFile(s, fileId) ==
    [id |-> fileId, name |-> s[fileId].name,
     parents |-> IF s[fileId].parents # NullText THEN JSONparse(s[fileId].parents)
                 ELSE <<>>,
     webViewLink |-> s[fileId].webViewLink, localPath |-> s[fileId].localPath]

NoFound == [state |-> "off", text |-> <<>>, rows |-> {}, pre |-> <<>>]

\* FolderDatabase.search(query): the statement SELECT * FROM files WHERE
\* name LIKE ? with the pattern as its parameter (no text makes it fail)
Search ==
    /\ found.state = "called"
    /\ found' = [found EXCEPT
                    !.state = "done",
                    !.rows = {DatabaseFile(store, fileId) :
                                 fileId \in {i \in DOMAIN store :
                                                Like(LikePattern(found.text),
                                                     store[i].name)}}]
    /\ UNCHANGED <<dbVars, tree, fetch, fileVars, query, mgrs, auth, life, sched, batch>>

\* ---------------------------------------------------------------------
\* Several DriveFileManager instances: the paths of their configurations
\* and the database files behind them
\* ---------------------------------------------------------------------

\* the two constructors: of src/orchestrator.ts, whose default paths carry
\* the folder id, and of the variant whose defaults come from defaultConfig
Constructors == {"perFolder", "defaultConfig"}

\* databasePath: config.databasePath ?? path.join(baseDirectories.databases,
\* `${folderId}_drive_database.sqlite`), or config.databasePath ||
\* defaultConfig.databasePath; the path as its segments
DatabasePath(constructor, folderId) ==
    IF constructor = "perFolder"
    THEN <<"storage", "databases", folderId \o "_drive_database.sqlite">>
    ELSE <<"storage", "databases", "drive_database.sqlite">>

\* downloadsPath: config.downloadsPath ?? path.join(baseDirectories.downloads,
\* folderId), or config.downloadsPath || defaultConfig.downloadsPath
DownloadsPath(constructor, folderId) ==
    IF constructor = "perFolder"
    THEN <<"storage", "downloads", folderId>>
    ELSE <<"storage", "downloads">>

ManagerIds == {1, 2}

\* the database files the managers can open
DatabasePaths ==
    {DatabasePath(constructor, folderId) :
        constructor \in Constructors, folderId \in FolderIds}

\* what the remote holds under one folder: files whose first parent it is
FolderFetchResults(folderId) ==
    SeqsUpTo({f \in GoogleFile : f.parents[1] = folderId /\ f.id # Rep("c", MinIdRun + 1)},
             MaxFetch)

\* updateDatabase: every fetched file upserted in order
RECURSIVE UpsertAll(_, _)
UpsertAll(s, files) ==
    IF files = <<>> THEN s ELSE UpsertAll(InsertOrUpdate(s, Head(files)), Tail(files))

\* INSERT OR REPLACE INTO files (id, name, parents, webViewLink) VALUES
\* (?, ?, ?, ?) of the legacy table, which has no localPath column
LegacyInsertOrReplace(s, file) ==
    [fileId \in DOMAIN s \cup {file.id} |->
        IF fileId = file.id
        THEN [name |-> file.name, parents |-> ParentsStr(file),
              webViewLink |-> file.webViewLink, localPath |-> NullText]
        ELSE s[fileId]]

\* the legacy updateDatabase: INSERT OR REPLACE INTO files ... run for every
\* fetched file in order, outside a transaction
RECURSIVE LegacyUpdateDatabase(_, _)
LegacyUpdateDatabase(s, files) ==
    IF files = <<>> THEN s
    ELSE LegacyUpdateDatabase(LegacyInsertOrReplace(s, Head(files)), Tail(files))

\* the legacy load on the rows s when files are fetched: existingIds are
\* read, the files written, DELETE ... WHERE id NOT IN (...fetchedIds) run
\* (for no fetched id too), and the counts taken from a second read
\* of the stored ids
LegacyLoad(s, files) ==
    LET existingIds == DOMAIN s
        fetchedIds == IdsOf(files)
        newIds == DOMAIN DeleteNotIn(LegacyUpdateDatabase(s, files), fetchedIds)
    IN  [totalFiles |-> Cardinality(newIds),
         newFiles |-> Cardinality({id \in newIds : id \notin existingIds})]

\* the rows after a refresh that returns
Refreshed(s, files) ==
    IF DeleteSkipped(IdsOf(files)) THEN UpsertAll(s, files)
    ELSE DeleteNotIn(UpsertAll(s, files), IdsOf(files))

NoManagers == [constructor |-> "none", folderId |-> <<>>, databases |-> <<>>,
               last |-> [op |-> "none", by |-> 0, pre |-> <<>>]]

\* the rows manager m observes: those of the database file of its path
RowsOf(g, m) == g.databases[DatabasePath(g.constructor, g.folderId[m])]

\* path.join(this.downloadsPath, `${fileId}.pdf`) of manager m
ManagerDownloadPath(g, m, fileId) ==
    DownloadsPath(g.constructor, g.folderId[m]) \o <<fileId \o <<".", "p", "d", "f">>>>

\* the database file of manager m is written
WriteRows(g, m, op, rows) ==
    [g EXCEPT !.databases[DatabasePath(g.constructor, g.folderId[m])] = rows,
              !.last = [op |-> op, by |-> m, pre |-> g.databases]]

\* manager m: refreshDatabase() from call to settlement; it returns, or
\* throws with nothing written or with the upserts committed
ManagerRefresh(m) ==
    /\ mgrs.constructor # "none"
    /\ \E files \in FolderFetchResults(mgrs.folderId[m]) :
          \E rows \in {Refreshed(RowsOf(mgrs, m), files),
                       UpsertAll(RowsOf(mgrs, m), files),
                       RowsOf(mgrs, m)} :
             mgrs' = WriteRows(mgrs, m, "refreshDatabase", rows)
    /\ UNCHANGED <<dbVars, tree, fetch, fileVars, query, found, auth, life, sched, batch>>

\* manager m: downloadFile(fileLink) from call to settlement; a transfer
\* that succeeds records the path, everything else leaves the rows
ManagerDownload(m, fileLink) ==
    /\ mgrs.constructor # "none"
    /\ LET fileId == LinkId[fileLink]
           rows == RowsOf(mgrs, m)
       IN  \/ /\ fileId # NullText
              /\ RowExists(rows, fileId)
              /\ mgrs' = WriteRows(mgrs, m, "downloadFile",
                                   UpdateLocalPath(rows, fileId,
                                                   ManagerDownloadPath(mgrs, m, fileId)))
           \/ mgrs' = WriteRows(mgrs, m, "downloadFile", rows)
    /\ UNCHANGED <<dbVars, tree, fetch, fileVars, query, found, auth, life, sched, batch>>

\* ---------------------------------------------------------------------
\* Overlapping calls on one manager: every call goes through the one
\* connection this.db of the FolderDatabase, so the transaction txn is the
\* connection's, whoever began it
\* ---------------------------------------------------------------------

\* the callers of refreshDatabase whose calls overlap
Refreshers == {1, 2}

\* refresh is called, whatever else is in flight (each caller calls once)
RefreshOverlapping(p) ==
    /\ Idle(p)
    /\ ret[p].op = "none"
    /\ pc' = [pc EXCEPT ![p] = "fetch"]
    /\ loc' = [loc EXCEPT ![p] = [NoLocals EXCEPT !.pre = store]]
    /\ ret' = [ret EXCEPT ![p] = NoRet]
    /\ UNCHANGED <<store, txn, prev>>

\* the steps of the refresh of p
RefreshSteps(p) ==
    \/ FetchAllFiles(p) /\ loc'[p].files \in DownloadFetchResults
    \/ GetExistingFileIds(p)
    \/ Begin(p)
    \/ UpsertStep(p)
    \/ Commit(p)
    \/ Rollback(p)
    \/ DeleteRemovedFiles(p)

\* FolderDatabase.search(''): the pattern %% matches every name
SearchAll(s) == {DatabaseFile(s, fileId) : fileId \in DOMAIN s}

\* searchFiles('') is called and answered between two steps of whatever
\* else is in flight: the statement reads the rows as the connection has them
SearchInterleaved ==
    /\ found' = [NoFound EXCEPT !.state = "done", !.rows = SearchAll(store),
                                !.pre = store]
    /\ UNCHANGED <<dbVars, tree, fetch, fileVars, query, mgrs, auth, life, sched, batch>>

\* ---------------------------------------------------------------------
\* DriveFileManager: init, ensureInitialized and the public operations
\* (src/src/orchestrator.ts)
\* ---------------------------------------------------------------------

\* most FolderDatabase instances one manager creates before the calls stop
MaxStores == 2

\* the public operations
Operations == {"init", "searchFiles", "downloadFile", "refreshDatabase"}

\* a public call: the await it is suspended at, the state of its
\* validateFolderId promise, the instance its init created (inst) and the
\* instance its store operation ran on (touched; ready: that instance had
\* finished initDatabase)
NoCall == [pc |-> "idle", op |-> "none", ok |-> TRUE, error |-> "none",
           valid |-> "pending", inst |-> 0, touched |-> 0, ready |-> TRUE,
           entered |-> FALSE]

\* folderDatabase: the index in instances of this.folderDatabase, 0 while
\* it is unassigned; instances: "opening", "ready" or "failed", by the
\* state of initDatabase; failed: some init of this manager has thrown
NoLife == [initialized |-> FALSE, folderDatabase |-> 0, instances |-> <<>>,
           calls |-> <<>>, failed |-> FALSE]

\* (mutant) ensureInitialized never calls init
NeverNeedsInit(l) == FALSE

\* ensureInitialized: if (!this.initialized) await this.init(), and init:
\* if (this.initialized) return
NeedsInit(l) == ~l.initialized

\* (mutant) the promise settles with the first of the two
PromiseAny(a, b) ==
    IF a = "resolved" \/ b = "resolved" THEN "resolved"
    ELSE IF a = "rejected" \/ b = "rejected" THEN "rejected"
    ELSE "pending"

\* Promise.all([a, b]): rejected once one is, resolved when both are
PromiseAll(a, b) ==
    IF a = "rejected" \/ b = "rejected" THEN "rejected"
    ELSE IF a = "resolved" /\ b = "resolved" THEN "resolved"
    ELSE "pending"

\* the promise of validateFolderId of a call
ValidatePromise(call) ==
    IF call.valid = "ok" THEN "resolved"
    ELSE IF call.valid = "failed" THEN "rejected" ELSE "pending"

\* the promise of initDatabase of an instance
InitDatabasePromise(state) ==
    IF state = "ready" THEN "resolved"
    ELSE IF state = "failed" THEN "rejected" ELSE "pending"

\* the catch of init rethrows, and the operation that awaited
\* ensureInitialized with it
InitThrows(l, c, error) ==
    [l EXCEPT !.calls[c] = [@ EXCEPT !.pc = "idle", !.ok = FALSE, !.error = error],
              !.failed = TRUE]

\* init has returned: init() itself returns, an operation goes on to the store
AfterInit(call) ==
    IF call.op = "init" THEN [call EXCEPT !.pc = "idle"]
    ELSE [call EXCEPT !.pc = "operate"]

LifeFrame ==
    UNCHANGED <<dbVars, tree, fetch, fileVars, query, found, mgrs, auth, sched, batch>>

\* a public operation is called: ensureInitialized / init up to its first await
CallOperation(c, op) ==
    /\ life.calls[c].pc = "idle"
    /\ Len(life.instances) < MaxStores
    /\ life' = [life EXCEPT !.calls[c] =
                   IF NeedsInit(life)
                   THEN [NoCall EXCEPT !.op = op, !.pc = "fileExists", !.entered = TRUE]
                   ELSE AfterInit([NoCall EXCEPT !.op = op])]
    /\ LifeFrame

\* (mutant) the credentials file is looked for after initializeDatabase
\* was called
CredentialsExistLate(c) ==
    /\ life.calls[c].pc = "fileExists"
    /\ \/ life' = [life EXCEPT !.calls[c].pc = "authorize"]
       \/ life' = [InitThrows(life, c, "credentials") EXCEPT
                      !.instances = Append(@, "opening"),
                      !.folderDatabase = Len(life.instances) + 1]
    /\ LifeFrame

\* const credentialsExist = await this.fileExists(credentialsPath)
CredentialsExist(c) ==
    /\ life.calls[c].pc = "fileExists"
    /\ \/ life' = [life EXCEPT !.calls[c].pc = "authorize"]
       \/ life' = InitThrows(life, c, "credentials")
    /\ LifeFrame

\* await Promise.all([authorize(...), this.initializeDirectories()]); then,
\* without an await in between, new GoogleDriveService, validateFolderId is
\* called, and initializeDatabase assigns this.folderDatabase = new
\* FolderDatabase(...) and calls initDatabase
AuthorizeSettles(c) ==
    /\ life.calls[c].pc = "authorize"
    /\ \/ life' = [life EXCEPT !.instances = Append(@, "opening"),
                               !.folderDatabase = Len(life.instances) + 1,
                               !.calls[c].inst = Len(life.instances) + 1,
                               !.calls[c].pc = "promiseAll"]
       \/ life' = InitThrows(life, c, "authorize")
    /\ LifeFrame

\* validateFolderId of the init of c resolves or rejects
ValidateSettles(c) ==
    /\ life.calls[c].pc = "promiseAll"
    /\ life.calls[c].valid = "pending"
    /\ \E valid \in {"ok", "failed"} :
          life' = [life EXCEPT !.calls[c].valid = valid]
    /\ LifeFrame

\* initDatabase of an instance (open, CREATE TABLE, CREATE INDEX,
\* prepareStatements) resolves or rejects, whether or not the init that
\* called it is still waiting
InitDatabaseSettles(i) ==
    /\ life.instances[i] = "opening"
    /\ \E state \in {"ready", "failed"} :
          life' = [life EXCEPT !.instances[i] = state]
    /\ LifeFrame

\* await Promise.all([validateFolderId(...), this.initializeDatabase()])
\* settles: this.initialized = true, or the catch of init
PromiseAllSettles(c) ==
    /\ life.calls[c].pc = "promiseAll"
    /\ LET call == life.calls[c]
           settled == PromiseAll(ValidatePromise(call),
                                 InitDatabasePromise(life.instances[call.inst]))
       IN  /\ settled # "pending"
           /\ life' = IF settled = "resolved"
                      THEN [life EXCEPT !.initialized = TRUE,
                                        !.calls[c] = AfterInit(call)]
                      ELSE InitThrows(life, c, "init")
    /\ LifeFrame

\* this.folderDatabase.search / getLocalFilePath / refresh: the operation
\* runs on the instance this.folderDatabase names now; on one whose
\* statements are not prepared it throws
Operate(c) ==
    /\ life.calls[c].pc = "operate"
    /\ LET ready == /\ life.folderDatabase # 0
                    /\ life.instances[life.folderDatabase] = "ready"
       IN  life' = [life EXCEPT !.calls[c] =
                       [@ EXCEPT !.pc = "idle", !.touched = life.folderDatabase,
                                 !.ready = ready, !.ok = ready,
                                 !.error = IF ready THEN "none" ELSE "store"]]
    /\ LifeFrame

\* downloadFile(fileLink) is called, whatever else is in flight
DownloadOverlapping(d, fileLink) ==
    /\ dl[d].pc = "idle"
    /\ dl' = [dl EXCEPT ![d] =
                 [NoDownload EXCEPT !.pc = "getLocalFilePath",
                                    !.op = "downloadFile",
                                    !.fileLink = fileLink,
                                    !.pre = store,
                                    !.existed = /\ LinkId[fileLink] # NullText
                                                /\ OnDisk(LinkPath[fileLink]),
                                    !.ever = LinkId[fileLink] \in hist.ever,
                                    !.kept = LinkId[fileLink] \in hist.kept]]
    /\ UNCHANGED <<dbVars, tree, fetch, disk, hist, textVars>>

\* ---------------------------------------------------------------------
\* The periodic refresh: FolderDatabase.scheduleRefresh (setTimeout, armed
\* again when the refresh has settled) and main (setInterval)
\* ---------------------------------------------------------------------

\* most refreshes the timer triggers before the process is stopped
MaxTicks == 3

\* how the refresh is scheduled
Schedules == {"setTimeout", "setInterval"}

\* runs: the refreshes triggered so far, each with the await it is
\* suspended at ("fetch": the remote; "write": the store; "done") and its
\* outcome ("pending", "ok", or "logged" for a failure that was caught)
NoSched == [schedule |-> "none", armed |-> FALSE, runs |-> <<>>]

NoRun == [pc |-> "fetch", outcome |-> "pending"]

\* the refreshes that have not settled
InFlight(s) == {k \in DOMAIN s.runs : s.runs[k].pc # "done"}

\* (mutant) this.load().then(() => { console.log(...); this.scheduleRefresh() })
\* .catch(...): the timer is armed again after a success only
RearmOnSuccess(s, k, outcome) ==
    [s EXCEPT !.runs[k] = [pc |-> "done", outcome |-> outcome],
              !.armed = \/ s.schedule = "setInterval"
                        \/ outcome = "ok"]

\* the refresh settles.  scheduleRefresh: .then(() => console.log(...))
\* .catch(error => console.error(...)).finally(() => this.scheduleRefresh());
\* main: try { await folderDatabase.refresh() } catch (err) { logger.error(
\* 'Scheduled refresh failed:', err) }, the interval staying armed
RefreshSettles(s, k, outcome) ==
    [s EXCEPT !.runs[k] = [pc |-> "done", outcome |-> outcome],
              !.armed = TRUE]

SchedFrame ==
    UNCHANGED <<dbVars, tree, fetch, fileVars, query, found, mgrs, auth, life,
                batch>>

\* the timer fires and the refresh is called: setTimeout fires once,
\* setInterval stays armed whatever is in flight
TimerFires ==
    /\ sched.armed
    /\ Len(sched.runs) < MaxTicks
    /\ sched' = [sched EXCEPT !.runs = Append(@, NoRun),
                              !.armed = sched.schedule = "setInterval"]
    /\ SchedFrame

\* load / refresh up to the files: authorize, getAllFolders, buildFolderTree
\* and searchFilesInFolders resolve, or one of them rejects
LoadFetches(k) ==
    /\ sched.runs[k].pc = "fetch"
    /\ \/ sched' = [sched EXCEPT !.runs[k].pc = "write"]
       \/ sched' = RefreshSettles(sched, k, "logged")
    /\ SchedFrame

\* getExistingFileIds, updateDatabase and deleteRemovedFiles resolve, or one
\* of them rejects
LoadWrites(k) ==
    /\ sched.runs[k].pc = "write"
    /\ \E outcome \in {"ok", "logged"} :
          sched' = RefreshSettles(sched, k, outcome)
    /\ SchedFrame

\* the database right after initDatabase on a new file
InitDb ==
    /\ store = <<>>
    /\ txn = NoTxn
    /\ pc = [p \in Procs |-> "idle"]
    /\ loc = [p \in Procs |-> NoLocals]
    /\ ret = [p \in Procs |-> NoRet]
    /\ prev = NoPrev

\* ---------------------------------------------------------------------
\* authorize (src/src/auth/client.ts; src/unnamed/part_004 holds the same
\* three functions over module-level paths)
\* ---------------------------------------------------------------------

\* most runs of authorize in one behaviour
MaxRuns == 2

AuthModules == {"auth/client.ts", "part_004"}

\* what the file at a path holds: nothing (no such file), the payload
\* saveCredentials writes ({type: 'authorized_user', ...}), the OAuth client
\* keys of the application ({installed: ...} or {web: ...}), or no JSON
FileContents == {"absent", "authorized_user", "client_keys", "garbage"}

\* module: whose authorize runs; grant: whether the remote honours the
\* refresh token of the token file; pre, preGrant: tokenFile and grant when
\* the run in flight (or just ended) was called; interactive: authenticate
\* was called in that run; client: the client the run holds
NoAuth == [module |-> "none", tokenFile |-> "absent", credentialsFile |-> "absent",
           grant |-> "none", pc |-> "idle", run |-> 0, client |-> "null",
           pre |-> "absent", preGrant |-> "none", interactive |-> FALSE,
           result |-> "none", error |-> "none"]

\* readFile throws without a file, JSON.parse on what is no JSON, and
\* google.auth.fromJSON on an object that is neither an authorized user nor
\* a service account; every throw is caught and gives null
loadSavedCredentialsIfExist(tokenFile) ==
    IF tokenFile = "authorized_user" THEN "saved" ELSE "null"

\* the content saveCredentials parses for the client keys
KeysContent(a) ==
    IF a.module = "auth/client.ts" THEN a.tokenFile ELSE a.credentialsFile

\* key = keys.installed || keys.web is an object with client_id
HasClientKeys(content) == content = "client_keys"

AuthThrows(a, error) ==
    [a EXCEPT !.pc = "idle", !.result = "error", !.error = error]

AuthReturns(a) ==
    [a EXCEPT !.pc = "idle", !.result = "client"]

AuthFrame ==
    UNCHANGED <<dbVars, tree, fetch, fileVars, query, found, mgrs, life, sched, batch>>

\* authorize(config), up to the await of loadSavedCredentialsIfExist
Authorize ==
    /\ auth.pc = "idle"
    /\ auth.run < MaxRuns
    /\ auth' = [auth EXCEPT !.pc = "loadSavedCredentialsIfExist",
                            !.run = @ + 1, !.client = "null",
                            !.pre = auth.tokenFile, !.preGrant = auth.grant,
                            !.interactive = FALSE,
                            !.result = "none", !.error = "none"]
    /\ AuthFrame

LoadSavedCredentials ==
    /\ auth.pc = "loadSavedCredentialsIfExist"
    /\ LET client == loadSavedCredentialsIfExist(auth.tokenFile)
       IN auth' = [auth EXCEPT !.client = client,
                               !.pc = IF client # "null" THEN "getAccessToken"
                                      ELSE "authenticate"]
    /\ AuthFrame

\* await client.getAccessToken(): the saved client is returned, or the
\* grant is refused (invalid_grant: the token file is unlinked and the run
\* goes on to authenticate), or the request fails otherwise and is rethrown
GetAccessToken ==
    /\ auth.pc = "getAccessToken"
    /\ \/ /\ auth.grant = "valid"
          /\ auth' = AuthReturns(auth)
       \/ /\ auth.grant = "revoked"
          /\ auth' = [auth EXCEPT !.tokenFile = "absent", !.client = "null",
                                  !.pc = "authenticate"]
       \/ auth' = AuthThrows(auth, "getAccessToken")
    /\ AuthFrame

\* await authenticate({scopes, keyfilePath: credentialsPath}): the browser
\* flow.  It needs the client keys of credentialsPath and the user's
\* consent; the client it resolves to always has a credentials object
Authenticate ==
    /\ auth.pc = "authenticate"
    /\ \/ /\ HasClientKeys(auth.credentialsFile)
          /\ auth' = [auth EXCEPT !.interactive = TRUE, !.client = "fresh",
                                  !.grant = "valid", !.pc = "saveCredentials"]
       \/ auth' = [AuthThrows(auth, "authenticate") EXCEPT !.interactive = TRUE]
    /\ AuthFrame

\* saveCredentials(client, tokenPath) and the return of authorize
SaveCredentialsOf(a) ==
    IF HasClientKeys(KeysContent(a))
    THEN AuthReturns([a EXCEPT !.tokenFile = "authorized_user"])
    ELSE AuthThrows(a, "saveCredentials")

SaveCredentials ==
    /\ auth.pc = "saveCredentials"
    /\ auth' = SaveCredentialsOf(auth)
    /\ AuthFrame

\* between two runs the user withdraws the application's access
RevokeGrant ==
    /\ auth.pc = "idle"
    /\ auth.grant = "valid"
    /\ auth' = [auth EXCEPT !.grant = "revoked"]
    /\ AuthFrame

\* an empty downloads directory, no download called yet
InitFiles ==
    /\ disk = [path \in Paths |-> "absent"]
    /\ dl = [d \in Callers |-> NoDownload]
    /\ hist = NoHist

\* no text query given yet
InitText ==
    /\ query = NoQuery
    /\ found = NoFound
    /\ mgrs = NoManagers
    /\ auth = NoAuth
    /\ life = NoLife
    /\ sched = NoSched
    /\ batch = NoBatch

Init ==
    /\ InitDb
    /\ InitFiles
    /\ InitText
    /\ tree = NoTree
    /\ fetch = NoFetch

Next ==
    /\ DbFrame
    /\ \E p \in Procs :
          \/ RefreshStart(p)
          \/ FetchAllFiles(p)
          \/ GetExistingFileIds(p)
          \/ Begin(p)
          \/ UpsertStep(p)
          \/ Commit(p)
          \/ Rollback(p)
          \/ DeleteRemovedFiles(p)
          \/ \E fileLink \in Links :
                UpdateLocalFilePath(p, fileLink, LinkPath[fileLink])

Spec == Init /\ [][Next]_vars

InitTree ==
    /\ InitDb
    /\ InitFiles
    /\ InitText
    /\ fetch = NoFetch
    /\ \E folderMap \in FolderMaps, rootFolderIds \in RootLists :
          tree = [NoTree EXCEPT !.folderMap = folderMap,
                                !.rootFolderIds = rootFolderIds,
                                !.state = "run"]

NextTree == TreeRoot \/ TreeScan \/ TreeUnwind \/ TreeReturn

SpecTree == InitTree /\ [][NextTree]_vars

\* buildFolderTree runs synchronously: it is never suspended
SpecTreeFair == SpecTree /\ WF_vars(NextTree)

NextStandalone == StandaloneRoot \/ StandaloneScan \/ TreeUnwind \/ TreeReturn

\* the standalone buildFolderTree, which runs synchronously as well
SpecStandalone == InitTree /\ [][NextStandalone]_vars /\ WF_vars(NextStandalone)

InitFetch ==
    /\ InitDb
    /\ InitFiles
    /\ InitText
    /\ tree = NoTree
    /\ \/ \E remoteFolders \in RemoteFolderLists :
            fetch = [NoFetch EXCEPT !.op = "getAllFolders", !.state = "run",
                                    !.remoteFolders = remoteFolders]
       \/ \E remoteFiles \in RemoteFileLists, folderIds \in FolderLists :
            fetch = [NoFetch EXCEPT !.op = "searchFilesInFolders", !.state = "start",
                                    !.remoteFiles = remoteFiles,
                                    !.folderIds = folderIds]

NextFetch == GetAllFoldersPage \/ SearchBegin \/ SearchPage

SpecFetch == InitFetch /\ [][NextFetch]_vars


\* refresh with its fetch spelled out: every files.list request is a step
NextSync ==
    \/ \E p \in Procs : RefreshCallsFetch(p)
    \/ GetAllFoldersPage
    \/ FetchBuildFolderTree
    \/ SearchBegin
    \/ SearchPage
    \/ \E p \in Procs : FetchAllFilesThrows(p)
    \/ \E p \in Procs : FetchAllFilesReturns(p)
    \/ /\ DbFrame
       /\ \E p \in Procs :
             \/ GetExistingFileIds(p)
             \/ Begin(p)
             \/ UpsertStep(p)
             \/ Commit(p)
             \/ Rollback(p)
             \/ DeleteRemovedFiles(p)

SpecSync == Init /\ [][NextSync]_vars

\* one manager: refreshes and downloads called one after the other, and the
\* files of the downloads directory removed from outside at any time
NextDownload ==
    \/ \E p \in Procs : RefreshStep(p)
    \/ \E d \in DOMAIN dl, fileLink \in DownloadLinks : DownloadFile(d, fileLink)
    \/ \E d \in DOMAIN dl : GetLocalFilePath(d)
    \/ \E d \in DOMAIN dl : CachedFileExists(d)
    \/ \E d \in DOMAIN dl : FileExists(d)
    \/ \E d \in DOMAIN dl : CreateWriteStream(d)
    \/ \E d \in DOMAIN dl : FilesGet(d)
    \/ \E d \in DOMAIN dl : PipeEnd(d)
    \/ \E d \in DOMAIN dl : DownloadUpdateLocalFilePath(d)
    \/ \E path \in Paths : DestFinish(path)
    \/ \E path \in Paths : ExternalDelete(path)

SpecDownload == Init /\ [][NextDownload]_vars

\* searchFilesInFolders is called with a text query, in either implementation
InitQuery ==
    /\ InitDb
    /\ InitFiles
    /\ tree = NoTree
    /\ fetch = NoFetch
    /\ found = NoFound
    /\ mgrs = NoManagers
    /\ auth = NoAuth
    /\ life = NoLife
    /\ sched = NoSched
    /\ batch = NoBatch
    /\ \E implementation \in Implementations, text \in Queries :
          query = [NoQuery EXCEPT !.state = "called",
                                  !.implementation = implementation,
                                  !.text = text]

NextQuery == BuildQueryString

SpecQuery == InitQuery /\ [][NextQuery]_vars

\* search is called with a text on a store that holds rows
InitSearch ==
    /\ txn = NoTxn
    /\ pc = [p \in Procs |-> "idle"]
    /\ loc = [p \in Procs |-> NoLocals]
    /\ ret = [p \in Procs |-> NoRet]
    /\ prev = NoPrev
    /\ InitFiles
    /\ tree = NoTree
    /\ fetch = NoFetch
    /\ query = NoQuery
    /\ mgrs = NoManagers
    /\ auth = NoAuth
    /\ life = NoLife
    /\ sched = NoSched
    /\ batch = NoBatch
    /\ store \in SearchStores
    /\ \E text \in SearchTexts :
          found = [NoFound EXCEPT !.state = "called", !.text = text, !.pre = store]

NextSearch == Search

SpecSearch == InitSearch /\ [][NextSearch]_vars

\* two managers constructed with different folder ids and nothing else, by
\* the same constructor, and initialized: their database files are new
InitManagers ==
    /\ InitDb
    /\ InitFiles
    /\ tree = NoTree
    /\ fetch = NoFetch
    /\ query = NoQuery
    /\ found = NoFound
    /\ auth = NoAuth
    /\ life = NoLife
    /\ sched = NoSched
    /\ batch = NoBatch
    /\ \E constructor \in Constructors :
       \E folderId1 \in FolderIds :
          \E folderId2 \in FolderIds \ {folderId1} :
          mgrs = [NoManagers EXCEPT !.constructor = constructor,
                                    !.folderId = <<folderId1, folderId2>>,
                                    !.databases = [path \in DatabasePaths |-> <<>>]]

NextManagers ==
    \/ \E m \in ManagerIds : ManagerRefresh(m)
    \/ \E m \in ManagerIds, fileLink \in DownloadLinks : ManagerDownload(m, fileLink)

SpecManagers == InitManagers /\ [][NextManagers]_vars

\* authorize is about to be called for the first time: any content of the
\* token file, a credentials file with the client keys or none
InitAuth ==
    /\ InitDb
    /\ InitFiles
    /\ tree = NoTree
    /\ fetch = NoFetch
    /\ query = NoQuery
    /\ found = NoFound
    /\ mgrs = NoManagers
    /\ life = NoLife
    /\ sched = NoSched
    /\ batch = NoBatch
    /\ \E module \in AuthModules :
       \E tokenFile \in FileContents :
       \E credentialsFile \in {"client_keys", "absent"} :
       \E grant \in {"valid", "revoked"} :
          auth = [NoAuth EXCEPT !.module = module,
                                !.tokenFile = tokenFile,
                                !.credentialsFile = credentialsFile,
                                !.grant = IF tokenFile = "authorized_user"
                                          THEN grant ELSE "none"]

NextAuth ==
    \/ Authorize
    \/ LoadSavedCredentials
    \/ GetAccessToken
    \/ Authenticate
    \/ SaveCredentials
    \/ RevokeGrant

SpecAuth == InitAuth /\ [][NextAuth]_vars
\* two callers of refreshDatabase on one initialized manager
InitOverlap ==
    /\ store = <<>>
    /\ txn = NoTxn
    /\ pc = [p \in Refreshers |-> "idle"]
    /\ loc = [p \in Refreshers |-> NoLocals]
    /\ ret = [p \in Refreshers |-> NoRet]
    /\ prev = NoPrev
    /\ InitFiles
    /\ InitText
    /\ tree = NoTree
    /\ fetch = NoFetch

NextOverlap ==
    /\ DbFrame
    /\ \E p \in Refreshers :
          \/ RefreshOverlapping(p)
          \/ RefreshSteps(p)

SpecOverlap == InitOverlap /\ [][NextOverlap]_vars
\* one caller of refreshDatabase, and searches that do not wait for it
NextReaders ==
    \/ /\ DbFrame
       /\ \E p \in Procs :
             \/ RefreshStart(p)
             \/ RefreshSteps(p)
    \/ SearchInterleaved

SpecReaders == Init /\ [][NextReaders]_vars
\* the callers of one manager
Users == {1, 2}

\* a manager just constructed, its calls awaited one by one
InitLifecycle ==
    /\ InitDb
    /\ InitFiles
    /\ tree = NoTree
    /\ fetch = NoFetch
    /\ query = NoQuery
    /\ found = NoFound
    /\ mgrs = NoManagers
    /\ auth = NoAuth
    /\ life = [NoLife EXCEPT !.calls = [c \in {1} |-> NoCall]]
    /\ sched = NoSched
    /\ batch = NoBatch

\* a manager just constructed, with callers that do not wait for each other
InitLifecycleOverlap ==
    /\ InitDb
    /\ InitFiles
    /\ tree = NoTree
    /\ fetch = NoFetch
    /\ query = NoQuery
    /\ found = NoFound
    /\ mgrs = NoManagers
    /\ auth = NoAuth
    /\ life = [NoLife EXCEPT !.calls = [c \in Users |-> NoCall]]
    /\ sched = NoSched
    /\ batch = NoBatch

NextLifecycle ==
    \/ \E c \in DOMAIN life.calls, op \in Operations : CallOperation(c, op)
    \/ \E c \in DOMAIN life.calls : CredentialsExist(c)
    \/ \E c \in DOMAIN life.calls : AuthorizeSettles(c)
    \/ \E c \in DOMAIN life.calls : ValidateSettles(c)
    \/ \E i \in DOMAIN life.instances : InitDatabaseSettles(i)
    \/ \E c \in DOMAIN life.calls : PromiseAllSettles(c)
    \/ \E c \in DOMAIN life.calls : Operate(c)

SpecLifecycle == InitLifecycle /\ [][NextLifecycle]_vars

SpecLifecycleOverlap == InitLifecycleOverlap /\ [][NextLifecycle]_vars
\* a manager whose last refresh stored the fetched files, and two callers
\* of downloadFile that do not wait for each other
InitDownloadOverlap ==
    /\ \E files \in DownloadFetchResults \ {<<>>} : store = UpsertAll(<<>>, files)
    /\ txn = NoTxn
    /\ pc = [p \in Procs |-> "idle"]
    /\ loc = [p \in Procs |-> NoLocals]
    /\ ret = [p \in Procs |-> NoRet]
    /\ prev = NoPrev
    /\ disk = [path \in Paths |-> "absent"]
    /\ dl = [d \in Users |-> NoDownload]
    /\ hist = NoHist
    /\ InitText
    /\ tree = NoTree
    /\ fetch = NoFetch

NextDownloadOverlap ==
    \/ \E d \in DOMAIN dl, fileLink \in DownloadLinks : DownloadOverlapping(d, fileLink)
    \/ \E d \in DOMAIN dl : GetLocalFilePath(d)
    \/ \E d \in DOMAIN dl : CachedFileExists(d)
    \/ \E d \in DOMAIN dl : FileExists(d)
    \/ \E d \in DOMAIN dl : CreateWriteStream(d)
    \/ \E d \in DOMAIN dl : FilesGet(d)
    \/ \E d \in DOMAIN dl : PipeEnd(d)
    \/ \E d \in DOMAIN dl : DownloadUpdateLocalFilePath(d)
    \/ \E path \in Paths : DestFinish(path)
    \/ \E path \in Paths : ExternalDelete(path)

SpecDownloadOverlap == InitDownloadOverlap /\ [][NextDownloadOverlap]_vars





\* a process whose database is set up and whose timer was just armed
InitSchedule ==
    /\ InitDb
    /\ InitFiles
    /\ tree = NoTree
    /\ fetch = NoFetch
    /\ query = NoQuery
    /\ found = NoFound
    /\ mgrs = NoManagers
    /\ auth = NoAuth
    /\ life = NoLife
    /\ \E schedule \in Schedules :
          sched = [NoSched EXCEPT !.schedule = schedule, !.armed = TRUE]
    /\ batch = NoBatch

NextSchedule ==
    \/ TimerFires
    \/ \E k \in DOMAIN sched.runs : LoadFetches(k)
    \/ \E k \in DOMAIN sched.runs : LoadWrites(k)

\* an armed timer fires, and every request of a refresh settles
SpecSchedule ==
    /\ InitSchedule
    /\ [][NextSchedule]_vars
    /\ WF_vars(TimerFires)
    /\ WF_vars(\E k \in DOMAIN sched.runs : LoadFetches(k))
    /\ WF_vars(\E k \in DOMAIN sched.runs : LoadWrites(k))

\* chunkArray called with a list of folder ids and a chunk size
InitChunk ==
    /\ InitDb
    /\ InitFiles
    /\ tree = NoTree
    /\ fetch = NoFetch
    /\ query = NoQuery
    /\ found = NoFound
    /\ mgrs = NoManagers
    /\ auth = NoAuth
    /\ life = NoLife
    /\ sched = NoSched
    /\ \E array \in FolderLists, size \in ChunkSizes :
          batch = [NoBatch EXCEPT !.state = "run", !.array = array, !.size = size]

NextChunk == ChunkFolderIds \/ AskChunk \/ AskedAll

\* chunkArray runs synchronously, and (here) every request is answered
SpecChunk == InitChunk /\ [][NextChunk]_vars /\ WF_vars(NextChunk)

\* ---------------------------------------------------------------------
\* Properties of buildFolderTree (SpecTree, SpecTreeFair)
\* ---------------------------------------------------------------------

\* the ids reachable from the set S by child links of folderMap
RECURSIVE Closure(_, _)
Closure(folderMap, S) ==
    LET children == {folderMap[k].id : k \in {j \in 1..Len(folderMap) :
                        folderMap[j].parents.ids \cap S # {}}}
    IN  IF children \subseteq S THEN S ELSE Closure(folderMap, S \cup children)

\* C7: buildFolderTree returns exactly the root ids plus every folder of
\* the map reachable from a root by child links, each id once.
C7_TreeIsClosure ==
    tree.state = "done" =>
        /\ ElemsOf(tree.allFolderIds) = Closure(tree.folderMap, ElemsOf(tree.rootFolderIds))
        /\ Cardinality(ElemsOf(tree.allFolderIds)) = Len(tree.allFolderIds)

\* C8: buildFolderTree terminates for every folder map and root list, and
\* no folder id is expanded (has its children scanned) more than once.
C8_TreeTerminates ==
    /\ <>(tree.state = "done")
    /\ [](\A f \in FolderIds : tree.expansions[f] <= 1)

\* a tree was built over a map in which two folders are each other's parent
\* and a third is reached by two different parents
C8_Witness ==
    /\ tree.state = "done"
    /\ \E k, j \in 1..Len(tree.folderMap) :
          /\ k # j
          /\ tree.folderMap[k].id \in tree.folderMap[j].parents.ids
          /\ tree.folderMap[j].id \in tree.folderMap[k].parents.ids
          /\ tree.expansions[tree.folderMap[k].id] = 1
          /\ tree.expansions[tree.folderMap[j].id] = 1
    /\ \E k \in 1..Len(tree.folderMap) :
          /\ Cardinality(tree.folderMap[k].parents.ids \cap ElemsOf(tree.allFolderIds)) = 2
          /\ tree.folderMap[k].id \in ElemsOf(tree.allFolderIds)

\* ---------------------------------------------------------------------
\* Properties of the fetch (SpecFetch)
\* ---------------------------------------------------------------------

RECURSIVE Flatten(_)
Flatten(seqs) == IF seqs = <<>> THEN <<>> ELSE Head(seqs) \o Flatten(Tail(seqs))

\* the records of the pages served, in the order they were served
ServedItems ==
    Flatten([k \in 1..Len(fetch.log) |->
                IF fetch.log[k].page.files.has THEN fetch.log[k].page.files.items
                ELSE <<>>])

\* all records the remote holds for the queries of the call, query by query
AllItems ==
    IF fetch.op = "getAllFolders" THEN Serve(fetch, FolderQuery)
    ELSE Flatten([j \in 1..Len(fetch.chunks) |-> Serve(fetch, FileQuery(fetch.chunks[j]))])

\* what the call returned, as records of the remote
Returned ==
    IF fetch.op = "getAllFolders" THEN fetch.folders
    ELSE fetch.files

AsReturned(items) ==
    IF fetch.op = "getAllFolders" THEN items
    ELSE [k \in 1..Len(items) |-> ToGoogleFile(items[k])]

\* C9: the records the chunked queries of searchFilesInFolders return, taken
\* as a set, are the records of one query over the whole folder id list.
C9_ChunkedEqualsSingleQuery ==
    (fetch.op = "searchFilesInFolders" /\ fetch.state = "done") =>
        ElemsOf(fetch.files)
            = ElemsOf(AsReturned(Serve(fetch, FileQuery(fetch.folderIds))))

\* a search over two chunks of folders returned the file that has a parent
\* in each chunk twice, once per chunk, next to a file returned once
C9_Witness ==
    /\ fetch.op = "searchFilesInFolders"
    /\ fetch.state = "done"
    /\ Len(fetch.chunks) = 2
    /\ Len(fetch.files) = 3
    /\ Cardinality(ElemsOf(fetch.files)) = 2

\* C10: a paginated fetch returns the records of the pages served, in page
\* order, which are all the records the remote holds for the query; every
\* request but the first of a query carries the token of the page before
\* it, and the page without a token is the last one requested for its query.
C10_PagesConcatenated ==
    fetch.state = "done" =>
        /\ Returned = AsReturned(ServedItems)
        /\ Returned = AsReturned(AllItems)
        /\ \A k \in 1..Len(fetch.log) :
              LET first == k = 1 \/ fetch.log[k - 1].chunk # fetch.log[k].chunk
              IN  /\ first => fetch.log[k].pageToken = 0
                  /\ ~first => /\ fetch.log[k - 1].page.nextPageToken # 0
                               /\ fetch.log[k].pageToken
                                     = fetch.log[k - 1].page.nextPageToken
                  /\ (k = Len(fetch.log) \/ fetch.log[k + 1].chunk # fetch.log[k].chunk)
                        => fetch.log[k].page.nextPageToken = 0

\* a fetch returned the records of two pages of one query
C10_Witness ==
    /\ fetch.state = "done"
    /\ \E k \in 2..Len(fetch.log) :
          /\ fetch.log[k - 1].chunk = fetch.log[k].chunk
          /\ fetch.log[k].page.nextPageToken = 0
          /\ fetch.log[k].page.files.has
    /\ Len(Returned) >= 2

\* ---------------------------------------------------------------------
\* Properties of refresh (Spec)
\* ---------------------------------------------------------------------

RefreshEnded(p) == Idle(p) /\ ret[p].op = "refresh"

RefreshReturned(p) == RefreshEnded(p) /\ ret[p].ok

RefreshThrew(p) == RefreshEnded(p) /\ ~ret[p].ok

\* C1: after a refresh that returns with a non-empty fetched set, the stored
\* ids are exactly the distinct fetched ids: every id stored before and not
\* fetched is gone, every fetched id not stored before is there.
C1_StoredIdsAreFetchedIds ==
    \A p \in Procs :
        (RefreshReturned(p) /\ loc[p].files # <<>>) =>
            /\ DOMAIN store = IdsOf(loc[p].files)
            /\ \A fileId \in DOMAIN loc[p].pre \ IdsOf(loc[p].files) :
                   fileId \notin DOMAIN store
            /\ \A fileId \in IdsOf(loc[p].files) \ DOMAIN loc[p].pre :
                   fileId \in DOMAIN store

\* a refresh returned that deleted one id, inserted one and kept one
C1_Witness ==
    \E p \in Procs :
        /\ RefreshReturned(p)
        /\ DOMAIN loc[p].pre \ IdsOf(loc[p].files) # {}
        /\ IdsOf(loc[p].files) \ DOMAIN loc[p].pre # {}
        /\ IdsOf(loc[p].files) \cap DOMAIN loc[p].pre # {}

\* C2: for every id stored before a refresh and fetched again, the returned
\* refresh leaves the row with the fetched name, parents and webViewLink and
\* with the localPath it had before the refresh.
C2_UpsertKeepsLocalPath ==
    \A p \in Procs :
        RefreshReturned(p) =>
            \A fileId \in DOMAIN loc[p].pre \cap IdsOf(loc[p].files) :
                /\ fileId \in DOMAIN store
                /\ store[fileId].name = LastOf(loc[p].files, fileId).name
                /\ store[fileId].parents # NullText
                /\ JSONparse(store[fileId].parents) = LastOf(loc[p].files, fileId).parents
                /\ store[fileId].webViewLink = LastOf(loc[p].files, fileId).webViewLink
                /\ store[fileId].localPath = loc[p].pre[fileId].localPath

\* a refresh returned that changed the metadata of a row with a localPath
C2_Witness ==
    \E p \in Procs :
        /\ RefreshReturned(p)
        /\ \E fileId \in DOMAIN loc[p].pre \cap IdsOf(loc[p].files) :
              /\ loc[p].pre[fileId].localPath # NullText
              /\ loc[p].pre[fileId].name # LastOf(loc[p].files, fileId).name

\* C3: whenever a refresh ends with an error, the stored rows are exactly
\* the rows stored before that refresh began.
C3_RefreshAllOrNothing ==
    \A p \in Procs : RefreshThrew(p) => store = loc[p].pre

\* C4: a refresh cycle that fetched zero files leaves every row stored
\* before it stored and unchanged, at every step after the fetch.
C4_EmptyFetchKeepsStore ==
    \A p \in Procs :
        (/\ loc[p].files = <<>>
         /\ \/ pc[p] \in {"getIds", "begin", "upsert", "commit", "rollback", "delete"}
            \/ RefreshEnded(p)) => store = loc[p].pre

\* a refresh that fetched zero files returned on a store that holds rows
C4_Witness ==
    \E p \in Procs :
        /\ RefreshReturned(p)
        /\ loc[p].files = <<>>
        /\ loc[p].existingIds # {}
        /\ store # <<>>

\* C5: a refresh that returns after a successful refresh with the same
\* fetched files and no store write in between reports newFiles = 0 and
\* totalFiles = the number of distinct fetched ids, and leaves all rows as
\* the first refresh left them.
C5_RefreshIdempotent ==
    \A p \in Procs :
        (RefreshReturned(p) /\ loc[p].repeat) =>
            /\ ret[p].newFiles = 0
            /\ ret[p].totalFiles = Cardinality(IdsOf(loc[p].files))
            /\ store = loc[p].pre

\* a repeated refresh returned on rows of which one has a localPath
C5_Witness ==
    \E p \in Procs :
        /\ RefreshReturned(p)
        /\ loc[p].repeat
        /\ loc[p].files # <<>>
        /\ \E fileId \in DOMAIN store : store[fileId].localPath # NullText

\* C6: a returned refresh reports totalFiles = the number of distinct
\* fetched ids and newFiles = the number of them that were not stored when
\* the cycle began, so 0 <= newFiles <= totalFiles.
C6_RefreshResult ==
    \A p \in Procs :
        RefreshReturned(p) =>
            /\ ret[p].totalFiles = Cardinality(IdsOf(loc[p].files))
            /\ ret[p].newFiles = Cardinality(IdsOf(loc[p].files) \ DOMAIN loc[p].pre)
            /\ 0 <= ret[p].newFiles
            /\ ret[p].newFiles <= ret[p].totalFiles

\* a refresh returned that fetched one new id and one stored id
C6_Witness ==
    \E p \in Procs :
        /\ RefreshReturned(p)
        /\ ret[p].newFiles = 1
        /\ ret[p].totalFiles = 2

\* ---------------------------------------------------------------------
\* Properties of refresh over the paginated fetch (SpecSync)
\* ---------------------------------------------------------------------

\* C11: once a files.list request of the folder listing or of a chunk's file
\* listing has failed, the refresh it belongs to throws: it is at its fetch
\* or has ended with an error, no further request is made, and the stored
\* rows are those stored when the refresh began, with no transaction open.
C11_FailedPageFailsRefresh ==
    /\ [](fetch.state = "failed" =>
            \A p \in Procs :
                /\ pc[p] = "fetch" \/ RefreshThrew(p)
                /\ store = loc[p].pre
                /\ ~txn.active
                /\ loc[p].files = <<>>)
    /\ [][fetch.state = "failed" =>
            \/ fetch' = fetch
            \/ fetch'.log = <<>> /\ \E p \in Procs : RefreshThrew(p)]_vars

\* a refresh over a store that holds rows threw after the file listing of
\* the second chunk failed, with records of earlier pages already fetched
C11_Witness ==
    \E p \in Procs :
        /\ RefreshThrew(p)
        /\ fetch.state = "failed"
        /\ fetch.op = "searchFilesInFolders"
        /\ fetch.chunk = 2
        /\ fetch.files # <<>>
        /\ store # <<>>

\* ---------------------------------------------------------------------
\* Properties of downloadFile (SpecDownload)
\* ---------------------------------------------------------------------

DownloadEnded(d) == dl[d].pc = "idle" /\ dl[d].op = "downloadFile"

DownloadReturned(d) == DownloadEnded(d) /\ dl[d].ok

DownloadThrew(d) == DownloadEnded(d) /\ ~dl[d].ok

\* the path of the link was on disk when the call began and stayed there
PathStayed(d) == dl[d].existed /\ ~dl[d].deleted

\* C12 as stated: once a download of a link has returned its path P, every
\* later download of that link, called while P is on disk, returns P
\* without invoking the transport (the reads of the store succeeding).
C12_SecondDownloadHits ==
    \A d \in DOMAIN dl :
        (DownloadEnded(d) /\ dl[d].ever /\ PathStayed(d) /\ dl[d].error # "store") =>
            /\ dl[d].ok
            /\ dl[d].path = LinkPath[dl[d].fileLink]
            /\ ~dl[d].transport

\* C12 amended: once a download of a link has returned its path P and no
\* refresh has removed the row of its id since, every later download of
\* that link, called while P is on disk, returns P without invoking the
\* transport (the reads of the store succeeding).
C12_SecondDownloadHitsWhileStored ==
    \A d \in DOMAIN dl :
        (DownloadEnded(d) /\ dl[d].kept /\ PathStayed(d) /\ dl[d].error # "store") =>
            /\ dl[d].ok
            /\ dl[d].path = LinkPath[dl[d].fileLink]
            /\ ~dl[d].transport

\* a second download of a link returned the recorded path from the cache,
\* the file being completely written
C12_Witness ==
    \E d \in DOMAIN dl :
        /\ DownloadReturned(d)
        /\ dl[d].kept
        /\ PathStayed(d)
        /\ ~dl[d].transport
        /\ dl[d].path = LinkPath[dl[d].fileLink]
        /\ disk[dl[d].path] = "complete"

\* C13: a download of a link whose row records a path that is not on disk
\* when the call begins never returns from the cache: unless the store or
\* the downloads directory fails first it invokes the transport, and when it
\* returns it has recorded the new path in the row and returns that path.
C13_RecordedPathAloneIsNoHit ==
    \A d \in DOMAIN dl :
        LET fileId == LinkId[dl[d].fileLink]
        IN  (/\ DownloadEnded(d)
             /\ fileId \in DOMAIN dl[d].pre
             /\ dl[d].pre[fileId].localPath # NullText
             /\ ~dl[d].existed) =>
                /\ dl[d].transport \/ (~dl[d].ok /\ dl[d].error \in {"store", "download"})
                /\ dl[d].ok => /\ dl[d].transport
                               /\ dl[d].path = LinkPath[dl[d].fileLink]
                               /\ fileId \in DOMAIN store
                               /\ store[fileId].localPath = dl[d].path

\* a download of a link whose recorded path had been removed from disk
\* returned the path of a new transfer
C13_Witness ==
    \E d \in DOMAIN dl :
        /\ DownloadReturned(d)
        /\ LinkId[dl[d].fileLink] \in DOMAIN dl[d].pre
        /\ dl[d].pre[LinkId[dl[d].fileLink]].localPath # NullText
        /\ ~dl[d].existed
        /\ dl[d].transport
        /\ OnDisk(dl[d].path)

\* a call of downloadFile for a link whose id parses and is not stored
Unstored(d) ==
    /\ dl[d].op = "downloadFile"
    /\ LinkId[dl[d].fileLink] # NullText
    /\ LinkId[dl[d].fileLink] \notin DOMAIN dl[d].pre

\* C14: a download of a link whose id parses and is not a stored row throws
\* the not-found error (the read of the store succeeding) without invoking
\* the transport; while it runs no row changes and no file is created or
\* truncated (files change only by being removed from outside or by the
\* write stream of an earlier transfer finishing).
C14_UnstoredIdIsNotFound ==
    /\ [](\A d \in DOMAIN dl :
            (DownloadEnded(d) /\ Unstored(d)) =>
                /\ ~dl[d].ok
                /\ dl[d].error # "store" => dl[d].error = "notFound"
                /\ ~dl[d].transport
                /\ store = dl[d].pre)
    /\ [][\A d \in DOMAIN dl :
            (dl[d].pc # "idle" /\ Unstored(d)) =>
                /\ store' = store
                /\ \A path \in Paths :
                      \/ disk'[path] = disk[path]
                      \/ disk'[path] = "absent"
                      \/ disk[path] = "flushing" /\ disk'[path] = "complete"]_vars

\* a download of a link whose row a refresh had removed threw the not-found
\* error while the file of its earlier download was on disk
C14_Witness ==
    \E d \in DOMAIN dl :
        /\ DownloadThrew(d)
        /\ Unstored(d)
        /\ dl[d].error = "notFound"
        /\ dl[d].ever
        /\ OnDisk(LinkPath[dl[d].fileLink])

\* C15: a download whose transfer fails (the request is rejected or the
\* response stream emits an error) throws and leaves every row, the
\* localPath of its id included, as it was; a localPath changes only in the
\* updateLocalFilePath of a call whose response stream has ended.
C15_FailedTransferRecordsNothing ==
    /\ [](\A d \in DOMAIN dl :
            (DownloadEnded(d) /\ dl[d].transport /\ ~dl[d].streamEnded) =>
                /\ ~dl[d].ok
                /\ dl[d].error = "download"
                /\ store = dl[d].pre)
    /\ [][\A fileId \in DOMAIN store \cap DOMAIN store' :
            store'[fileId].localPath # store[fileId].localPath =>
                \E d \in DOMAIN dl :
                    /\ dl[d].pc = "updateLocalFilePath"
                    /\ dl[d].streamEnded
                    /\ LinkId[dl[d].fileLink] = fileId]_vars

\* a download of a stored id threw after its response stream failed, the
\* partly written file left on disk and the row without a localPath
C15_Witness ==
    \E d \in DOMAIN dl :
        /\ DownloadThrew(d)
        /\ dl[d].error = "download"
        /\ dl[d].transport
        /\ disk[LinkPath[dl[d].fileLink]] = "partial"
        /\ store[LinkId[dl[d].fileLink]].localPath = NullText

\* ---------------------------------------------------------------------
\* Properties of updateLocalFilePath (Spec)
\* ---------------------------------------------------------------------

\* C16: a call of updateLocalFilePath with a link whose id is not a stored
\* row when it is called throws, and changes no row.
C16_UpdateThrowsWithoutRow ==
    [][\A p \in Procs, fileLink \in Links :
          (/\ UpdateLocalFilePath(p, fileLink, LinkPath[fileLink])
           /\ LinkId[fileLink] \notin DOMAIN store) =>
              /\ ~ret'[p].ok
              /\ store' = store]_vars

\* ---------------------------------------------------------------------
\* Properties of the text queries (SpecQuery, SpecSearch)
\* ---------------------------------------------------------------------

\* C17: for every text query that is not blank, the remote reads the filter
\* expression as the three clauses of the folder search and one name clause
\* whose literal closes at the last character of the expression and has the
\* text as its value; for a blank text it reads the three clauses alone.
C17_TextStaysInsideLiteral ==
    query.state = "built" =>
        LET filter == ReadFilter(query.queryString)
        IN  /\ filter.clauses = BaseQueryString(QueryChunk)
            /\ filter.rest = <<>>
            /\ filter.name.has = (trim(query.text) # <<>>)
            /\ filter.name.has => /\ filter.name.closed
                                  /\ filter.name.value = query.text

\* text occurs in name as a substring, letters compared without case
Contains(name, text) ==
    \E k \in 0..(Len(name) - Len(text)) :
        \A j \in 1..Len(text) : Lower(name[k + j]) = Lower(text[j])

\* C18: search(text) returns exactly the stored rows whose name contains
\* text as a literal, case-insensitive substring, and changes no stored row.
C18_SearchIsLiteralSubstring ==
    found.state = "done" =>
        /\ found.rows = {DatabaseFile(store, fileId) :
                            fileId \in {i \in DOMAIN store :
                                           Contains(store[i].name, found.text)}}
        /\ store = found.pre

\* ---------------------------------------------------------------------
\* Properties of the managers of several folders (SpecManagers)
\* ---------------------------------------------------------------------

\* C19: two managers constructed with different folder ids and otherwise
\* default configuration have different database paths and different
\* downloads paths, and a refresh or download through one of them leaves
\* the rows the other one observes as they were.
C19_ManagersAreIsolated ==
    mgrs.last.op # "none" =>
        /\ DatabasePath(mgrs.constructor, mgrs.folderId[1])
              # DatabasePath(mgrs.constructor, mgrs.folderId[2])
        /\ DownloadsPath(mgrs.constructor, mgrs.folderId[1])
              # DownloadsPath(mgrs.constructor, mgrs.folderId[2])
        /\ \A m \in ManagerIds \ {mgrs.last.by} :
              RowsOf(mgrs, m) = RowsOf([mgrs EXCEPT !.databases = mgrs.last.pre], m)

\* C20: a run of authorize that starts without a file at tokenPath, and in
\* which the interactive authentication does not fail, has performed the
\* interactive authentication, has written the token to tokenPath and
\* has returned the new client; a run that starts with a saved token the
\* remote honours, and whose token request does not fail, has returned
\* the saved client without interactive authentication.
C20_FirstRunSavesLaterRunReuses ==
    (auth.pc = "idle" /\ auth.result # "none") =>
        /\ (auth.pre = "absent" /\ auth.error # "authenticate") =>
              /\ auth.interactive
              /\ auth.result = "client"
              /\ auth.client = "fresh"
              /\ auth.tokenFile = "authorized_user"
        /\ (/\ auth.pre = "authorized_user"
            /\ auth.preGrant = "valid"
            /\ auth.error # "getAccessToken") =>
              /\ ~auth.interactive
              /\ auth.result = "client"
              /\ auth.client = "saved"

\* ---------------------------------------------------------------------
\* Properties of overlapping refreshes (SpecOverlap)
\* ---------------------------------------------------------------------

\* the ids whose rows the cycle of q has written in its transaction so far
WrittenIds(q) ==
    IF pc[q] \in {"upsert", "commit"}
    THEN {loc[q].files[k].id : k \in 1..(loc[q].i - 1)}
    ELSE {}

\* C21: when two refreshes overlap, the rollback of the failing cycle leaves
\* the rows the other cycle has written in its transaction as they are, and
\* when both cycles have returned with files fetched, the stored ids are the
\* fetched ids of one of them (of the one that committed last).
C21_OverlappingRefreshesAreIndependent ==
    /\ [][\A p \in Refreshers : \A q \in Refreshers \ {p} :
             (pc[p] = "rollback" /\ pc'[p] = "idle") =>
                 \A fileId \in WrittenIds(q) \cap DOMAIN store :
                     /\ fileId \in DOMAIN store'
                     /\ store'[fileId] = store[fileId]]_vars
    /\ [](\A p \in Refreshers : \A q \in Refreshers \ {p} :
             (/\ RefreshReturned(p) /\ loc[p].files # <<>>
              /\ RefreshReturned(q) /\ loc[q].files # <<>>) =>
                 \/ DOMAIN store = IdsOf(loc[p].files)
                 \/ DOMAIN store = IdsOf(loc[q].files))

\* ---------------------------------------------------------------------
\* Properties of reads interleaved with a refresh (SpecReaders)
\* ---------------------------------------------------------------------

\* C22: no search answered while a refresh cycle is between its first
\* upsert and its return sees all the fetched ids of the cycle stored, one
\* of them new, together with a row whose id the cycle did not fetch.
C22_RefreshLooksAtomic ==
    [][found' # found =>
          \A p \in Procs :
              pc[p] \in {"upsert", "commit", "rollback", "delete"} =>
                  LET seen == {row.id : row \in found'.rows}
                      fetchedIds == IdsOf(loc[p].files)
                  IN  ~ /\ fetchedIds \subseteq seen
                        /\ fetchedIds \ DOMAIN loc[p].pre # {}
                        /\ seen \ fetchedIds # {}]_vars

\* ---------------------------------------------------------------------
\* Properties of a failing upsert (Spec)
\* ---------------------------------------------------------------------

\* the refresh of p threw at the upsert of one of its fetched files
UpsertFailed(p) == RefreshThrew(p) /\ loc[p].i \in 1..Len(loc[p].files)

\* C23: when an upsert of a cycle fails, the cycle goes to its rollback and
\* from there to the error of refresh, never to the delete step, and the
\* rows stored then are those stored when the cycle began: none of the
\* upserts executed before the failure persists and nothing is deleted.
C23_FailedUpsertRollsBack ==
    /\ [](\A p \in Procs : UpsertFailed(p) => store = loc[p].pre)
    /\ [][\A p \in Procs :
             /\ (pc[p] = "upsert" /\ pc'[p] \notin {"upsert", "commit"}) =>
                    pc'[p] = "rollback"
             /\ (pc[p] = "rollback" /\ pc'[p] # "rollback") =>
                    /\ pc'[p] = "idle"
                    /\ ret'[p].op = "refresh"
                    /\ ~ret'[p].ok]_vars

\* the second of two upserts failed after the first had inserted a row into
\* a store that held another row
C23_Witness ==
    \E p \in Procs :
        /\ UpsertFailed(p)
        /\ loc[p].i = 2
        /\ loc[p].files[1].id \notin DOMAIN loc[p].pre
        /\ loc[p].pre # <<>>

\* ---------------------------------------------------------------------
\* Properties of the files downloadFile returns (SpecDownload)
\* ---------------------------------------------------------------------

\* C24: whenever a download returns a path, as a cache hit or after a
\* transfer, the file at that path holds the complete content of a finished
\* transfer: it is not missing, not partially written and not still being
\* written.
C24_ReturnedFileIsComplete ==
    [][\A d \in DOMAIN dl :
          (/\ dl[d].pc # "idle"
           /\ dl'[d].pc = "idle"
           /\ dl'[d].op = "downloadFile"
           /\ dl'[d].ok) => disk'[dl'[d].path] = "complete"]_vars

\* ---------------------------------------------------------------------
\* Properties of the manager's initialization (SpecLifecycleOverlap,
\* SpecLifecycle)
\* ---------------------------------------------------------------------

\* C25: with public operations called without waiting for each other, a
\* manager none of whose inits has failed creates at most one store
\* instance, and every store operation runs on an instance whose
\* initDatabase has finished.
C25_InitTakesEffectOnce ==
    /\ ~life.failed => Len(life.instances) <= 1
    /\ \A c \in DOMAIN life.calls : life.calls[c].ready

\* the call of c ended with the error of a failed init
InitFailed(call) ==
    call.pc = "idle" /\ call.error \in {"credentials", "authorize", "init"}

\* C26: with every call awaited before the next, a store operation runs only
\* on a manager that is initialized, on an instance whose initDatabase has
\* finished, and the flag is set only by an init whose credentials check,
\* authorization, folder validation and initDatabase have all succeeded; a
\* call whose init fails ends with the error without touching the store and
\* leaves the manager uninitialized; a call on an uninitialized manager
\* enters init; an init call on an initialized manager returns and changes
\* nothing else.
C26_OperationsFollowInit ==
    /\ [](\A c \in DOMAIN life.calls :
            LET call == life.calls[c]
            IN  /\ call.touched # 0 =>
                      /\ life.initialized
                      /\ call.ready
                      /\ life.instances[call.touched] = "ready"
                /\ call.ready
                /\ InitFailed(call) =>
                      /\ ~call.ok
                      /\ call.touched = 0
                      /\ ~life.initialized)
    /\ [][\A c \in DOMAIN life.calls :
            LET call == life.calls[c]
            IN  /\ (~life.initialized /\ life'.initialized /\ call.pc # "idle") =>
                      /\ call.entered
                      /\ call.valid = "ok"
                      /\ call.inst # 0
                      /\ life.instances[call.inst] = "ready"
                /\ (call.pc = "idle" /\ life'.calls[c] # call /\ ~life.initialized) =>
                      life'.calls[c].pc = "fileExists"
                /\ (/\ call.pc = "idle" /\ life'.calls[c] # call /\ life.initialized
                    /\ life'.calls[c].op = "init") =>
                      life' = [life EXCEPT !.calls[c] = [NoCall EXCEPT !.op = "init"]]]_vars

\* after an init that failed, a later call initialized the manager and a
\* search ran on the instance of that init
C26_Witness ==
    /\ life.failed
    /\ life.initialized
    /\ \E c \in DOMAIN life.calls :
          /\ life.calls[c].op = "searchFiles"
          /\ life.calls[c].pc = "idle"
          /\ life.calls[c].touched = Len(life.instances)
          /\ life.calls[c].ok

\* ---------------------------------------------------------------------
\* Properties of localPath (SpecDownload)
\* ---------------------------------------------------------------------

\* C27: a row has a localPath only if a download of its id has returned a
\* path and the row has been stored ever since; a row that a step inserts
\* has no localPath, also when its id was stored and downloaded before.
C27_LocalPathOnlyByDownload ==
    /\ [](\A fileId \in DOMAIN store :
            store[fileId].localPath # NullText => fileId \in hist.kept)
    /\ [][\A fileId \in DOMAIN store' \ DOMAIN store :
            store'[fileId].localPath = NullText]_vars

\* the row of an id that was downloaded, then deleted by a refresh, is
\* stored again without a localPath while its file is still on disk
C27_Witness ==
    \E fileId \in DOMAIN store \cap (hist.ever \ hist.kept) :
        /\ store[fileId].localPath = NullText
        /\ OnDisk(DownloadPath(fileId))

\* ---------------------------------------------------------------------
\* Properties of a fetch that returns an id more than once (Spec)
\* ---------------------------------------------------------------------

\* some id occurs more than once in files
HasDuplicates(files) == Cardinality(IdsOf(files)) < Len(files)

\* C28: after a returned refresh whose fetched files name an id more than
\* once, the store holds one row per distinct fetched id, that row carries
\* the record of the id fetched last, totalFiles counts each distinct id
\* once, and newFiles counts once each distinct id not stored before.
C28_DuplicateIdsCountOnce ==
    \A p \in Procs :
        (RefreshReturned(p) /\ HasDuplicates(loc[p].files)) =>
            /\ DOMAIN store = IdsOf(loc[p].files)
            /\ Cardinality(DOMAIN store) = Cardinality(IdsOf(loc[p].files))
            /\ \A fileId \in IdsOf(loc[p].files) :
                  /\ store[fileId].name = LastOf(loc[p].files, fileId).name
                  /\ store[fileId].webViewLink
                        = LastOf(loc[p].files, fileId).webViewLink
            /\ ret[p].totalFiles = Cardinality(IdsOf(loc[p].files))
            /\ ret[p].newFiles = Cardinality(IdsOf(loc[p].files) \ DOMAIN loc[p].pre)
            /\ ret[p].newFiles <= ret[p].totalFiles

\* a refresh returned that fetched one new id twice, under two names
C28_Witness ==
    \E p \in Procs :
        /\ RefreshReturned(p)
        /\ Len(loc[p].files) = 2
        /\ loc[p].files[1].id = loc[p].files[2].id
        /\ loc[p].files[1].name # loc[p].files[2].name
        /\ loc[p].files[1].id \notin DOMAIN loc[p].pre
        /\ ret[p].totalFiles = 1
        /\ ret[p].newFiles = 1

\* ---------------------------------------------------------------------
\* The frame of downloadFile (SpecDownload)
\* ---------------------------------------------------------------------

\* rows s and t differ at most in the localPath of the row of fileId
SameButLocalPath(s, t, fileId) ==
    /\ DOMAIN s = DOMAIN t
    /\ \A i \in DOMAIN s :
          /\ s[i].name = t[i].name
          /\ s[i].parents = t[i].parents
          /\ s[i].webViewLink = t[i].webViewLink
          /\ i # fileId => s[i].localPath = t[i].localPath

\* C29: no step of a download call inserts or deletes a row or changes a
\* name, parents or webViewLink, or the localPath of a row of another id,
\* and when the call has ended, by a cache hit, after a transfer or with an
\* error, the rows differ from those stored when it was called at most in
\* the localPath of the requested id.
C29_DownloadWritesLocalPathOnly ==
    /\ [](\A d \in DOMAIN dl :
            DownloadEnded(d) =>
                SameButLocalPath(dl[d].pre, store, LinkId[dl[d].fileLink]))
    /\ [][\A d \in DOMAIN dl :
            (dl'[d] # dl[d] /\ dl'[d].op = "downloadFile") =>
                SameButLocalPath(store, store', LinkId[dl'[d].fileLink])]_vars

\* a download returned after a transfer and recorded its path, another row
\* being stored
C29_Witness ==
    \E d \in DOMAIN dl :
        /\ DownloadReturned(d)
        /\ dl[d].transport
        /\ Cardinality(DOMAIN store) = 2
        /\ dl[d].pre[LinkId[dl[d].fileLink]].localPath = NullText
        /\ store[LinkId[dl[d].fileLink]].localPath = dl[d].path

\* ---------------------------------------------------------------------
\* Properties of overlapping downloads (SpecDownloadOverlap)
\* ---------------------------------------------------------------------

\* the call of d was not answered from the cache
MissedCache(d) == ~(dl[d].ok /\ ~dl[d].transport)

\* C30: when two download calls for the same stored id have both ended
\* without a failure of the store or of the transfer, and neither was
\* answered from the cache, both have invoked the transport, both have
\* returned the path made of the downloads root and the id, and the row of
\* the id records that path.
C30_OverlappingDownloadsAgree ==
    \A d \in DOMAIN dl : \A e \in DOMAIN dl \ {d} :
        LET fileId == LinkId[dl[d].fileLink]
        IN  (/\ DownloadEnded(d) /\ DownloadEnded(e)
             /\ dl[e].fileLink = dl[d].fileLink
             /\ fileId \in DOMAIN store
             /\ dl[d].error = "none" /\ dl[e].error = "none"
             /\ MissedCache(d) /\ MissedCache(e)) =>
                /\ dl[d].transport /\ dl[e].transport
                /\ dl[d].ok /\ dl[e].ok
                /\ dl[d].path = DownloadPath(fileId)
                /\ dl[e].path = DownloadPath(fileId)
                /\ store[fileId].localPath = DownloadPath(fileId)

\* two calls for one id that were in flight together (no file was removed
\* under them, yet both went to the transport) have both returned
C30_Witness ==
    \E d \in DOMAIN dl : \E e \in DOMAIN dl \ {d} :
        /\ DownloadReturned(d) /\ DownloadReturned(e)
        /\ dl[e].fileLink = dl[d].fileLink
        /\ dl[d].transport /\ dl[e].transport
        /\ ~dl[d].existed /\ ~dl[e].existed
        /\ ~dl[d].deleted /\ ~dl[e].deleted
        /\ dl[d].pre[LinkId[dl[d].fileLink]].localPath = NullText
        /\ dl[e].pre[LinkId[dl[d].fileLink]].localPath = NullText

\* ---------------------------------------------------------------------
\* Order of the transfer's steps (SpecDownload)
\* ---------------------------------------------------------------------

\* C31: when downloadFileFromGoogleDrive has returned a freshly transferred
\* path and updateLocalFilePath has not yet been called for it, the whole
\* content is in the destination file; and while the request to the
\* transport has not succeeded, a destination that was not there when the
\* download was called has not been created.
C31_FreshPathIsWritten ==
    \A d \in DOMAIN dl :
        LET path == LinkPath[dl[d].fileLink]
        IN  /\ (dl[d].pc = "updateLocalFilePath" /\ ~dl[d].unlinked)
                   => disk[path] = "complete"
            /\ (dl[d].pc = "get" /\ ~dl[d].existed /\ ~dl[d].unlinked)
                   => disk[path] = "absent"

\* ---------------------------------------------------------------------
\* Links without an id (SpecDownload)
\* ---------------------------------------------------------------------

\* link holds no run of MinIdRun identifier characters
HasNoId(link) ==
    \A s \in 1..(Len(link) - MinIdRun + 1) :
        ~IsIdRun(link, s, s + MinIdRun - 1)

\* C32: a download called with a link that holds no id gets null from
\* getLocalFilePath and false from fileExists, neither of which raises, and
\* throws 'File not found in the database.'; it never reaches the transport
\* and the store is, during the call and after its last step, as it was
\* when the call was made.
C32_LinkWithoutIdIsNotFound ==
    /\ [](\A d \in DOMAIN dl :
             (dl[d].op = "downloadFile" /\ HasNoId(dl[d].fileLink)) =>
                 /\ dl[d].pc \in {"getLocalFilePath", "fileExists", "idle"}
                 /\ dl[d].cachedFilePath = NullText
                 /\ ~dl[d].transport
                 /\ dl[d].pc # "idle" => store = dl[d].pre
                 /\ dl[d].pc = "idle" =>
                        ~dl[d].ok /\ dl[d].error = "notFound")
    /\ [][\A d \in DOMAIN dl :
             (/\ HasNoId(dl[d].fileLink)
              /\ dl[d].pc # "idle"
              /\ dl'[d].pc = "idle") =>
                 /\ store' = store
                 /\ disk' = disk]_vars

\* a download of a link without an id has thrown while the store has rows,
\* among them one with a local path
C32_Witness ==
    \E d \in DOMAIN dl :
        /\ dl[d].op = "downloadFile"
        /\ dl[d].pc = "idle"
        /\ HasNoId(dl[d].fileLink)
        /\ Len(dl[d].fileLink) > MinIdRun
        /\ dl[d].error = "notFound"
        /\ \E i \in DOMAIN store : store[i].localPath # NullText

\* ---------------------------------------------------------------------
\* Roots that are not in the folder map (SpecTree)
\* ---------------------------------------------------------------------

\* the ids of the folders of folderMap
MapIds(folderMap) == {folderMap[k].id : k \in 1..Len(folderMap)}

\* C33: when buildFolderTree has returned for a root list with a root that
\* is not in the folder map, the children of no such root were scanned, no
\* folder is in the result on account of such a root (beyond the root's own
\* id), and every folder reachable from the roots that are in the map is in
\* the result.
C33_AbsentRootIsSkipped ==
    tree.state = "done" =>
        LET roots == ElemsOf(tree.rootFolderIds)
            absent == roots \ MapIds(tree.folderMap)
            others == Closure(tree.folderMap, roots \cap MapIds(tree.folderMap))
        IN  absent # {} =>
                /\ \A id \in absent : tree.expansions[id] = 0
                /\ ElemsOf(tree.allFolderIds) \subseteq absent \cup others
                /\ others \subseteq ElemsOf(tree.allFolderIds)

\* ---------------------------------------------------------------------
\* init without a credentials file (SpecLifecycle)
\* ---------------------------------------------------------------------

\* C34: the step in which init finds no credentials file ends the call
\* with the error 'Credentials file not found.' and changes nothing else:
\* the manager is uninitialized before and after it, no FolderDatabase is
\* created or assigned, and the call has neither reached authorize nor
\* called validateFolderId or initializeDatabase.
C34_NoCredentialsStopsInit ==
    [][\A c \in DOMAIN life.calls :
          (/\ life.calls[c].pc = "fileExists"
           /\ life'.calls[c].error = "credentials") =>
              /\ life'.calls[c].pc = "idle"
              /\ ~life'.calls[c].ok
              /\ life'.calls[c].inst = 0
              /\ life'.calls[c].valid = "pending"
              /\ life'.calls[c].touched = 0
              /\ ~life.initialized
              /\ ~life'.initialized
              /\ life'.instances = life.instances
              /\ life'.folderDatabase = life.folderDatabase]_vars

\* the first call of a manager has failed for want of the credentials file
C34_Witness ==
    \E c \in DOMAIN life.calls :
        /\ life.calls[c].pc = "idle"
        /\ life.calls[c].op \in Operations
        /\ life.calls[c].error = "credentials"
        /\ ~life.initialized
        /\ life.instances = <<>>

\* ---------------------------------------------------------------------
\* Properties of the periodic refresh (SpecSchedule)
\* ---------------------------------------------------------------------

\* every refresh triggered so far has settled with a failure
AllFailed(s) == \A k \in DOMAIN s.runs : s.runs[k].outcome = "logged"

\* C35: a failed scheduled refresh ends as a logged failure and leaves the
\* schedule running: the interval timer is always armed, the setTimeout
\* timer is armed exactly while no scheduled refresh is in flight, so that
\* with it no two scheduled refreshes are in flight together; and after any
\* number of scheduled refreshes that all failed, one more is triggered
\* (as long as the process runs, here up to MaxTicks refreshes).
C35_FailedRefreshKeepsSchedule ==
    /\ [](/\ sched.schedule = "setInterval" => sched.armed
          /\ sched.schedule = "setTimeout" =>
                 /\ sched.armed <=> InFlight(sched) = {}
                 /\ Cardinality(InFlight(sched)) <= 1)
    /\ \A n \in 1..(MaxTicks - 1) :
          (Len(sched.runs) = n /\ AllFailed(sched)) ~> (Len(sched.runs) = n + 1)

\* scheduled with setTimeout, a third refresh was triggered after two that
\* failed, and has its files
C35_Witness ==
    /\ sched.schedule = "setTimeout"
    /\ Len(sched.runs) = 3
    /\ sched.runs[1].outcome = "logged"
    /\ sched.runs[2].outcome = "logged"
    /\ sched.runs[3].pc = "write"

\* ---------------------------------------------------------------------
\* The counts of the legacy load and of refresh (Spec)
\* ---------------------------------------------------------------------

\* C36: a refresh that returns, called with no other call in flight,
\* reports the totalFiles and newFiles that the legacy load reports for the
\* rows stored when the cycle began and the same fetched files.
C36_LegacyLoadCountsAgree ==
    \A p \in Procs :
        RefreshReturned(p) =>
            LET legacy == LegacyLoad(loc[p].pre, loc[p].files)
            IN  /\ ret[p].totalFiles = legacy.totalFiles
                /\ ret[p].newFiles = legacy.newFiles

\* a refresh returned over stored rows one of which was fetched again and
\* one not, with one new id
C36_Witness ==
    \E p \in Procs :
        /\ RefreshReturned(p)
        /\ ret[p].totalFiles = 2
        /\ ret[p].newFiles = 1
        /\ DOMAIN loc[p].pre \ IdsOf(loc[p].files) # {}
        /\ DOMAIN loc[p].pre \cap IdsOf(loc[p].files) # {}

\* ---------------------------------------------------------------------
\* Properties of the standalone buildFolderTree (SpecStandalone)
\* ---------------------------------------------------------------------

\* the roots, and the folders reachable by child links from the roots that
\* are in the map
Reachable(folderMap, rootFolderIds) ==
    ElemsOf(rootFolderIds)
        \cup Closure(folderMap, ElemsOf(rootFolderIds) \cap MapIds(folderMap))

\* C37: the standalone buildFolderTree returns for every folder map and
\* root list, maps with a cycle of parents included, and what it returns
\* are the reachable ids, each once.
C37_StandaloneTreeTerminates ==
    /\ <>(tree.state = "done")
    /\ [](tree.state = "done" =>
             /\ ElemsOf(tree.allFolderIds)
                    = Reachable(tree.folderMap, tree.rootFolderIds)
             /\ Cardinality(ElemsOf(tree.allFolderIds)) = Len(tree.allFolderIds))

\* ---------------------------------------------------------------------
\* Properties of chunkArray (SpecChunk)
\* ---------------------------------------------------------------------

\* C38: chunkArray(array, size) with size >= 1 returns; its chunks, put
\* together in order, are the array; every chunk has at least one and at
\* most size elements, and every chunk but the last has size; the empty
\* array gives no chunk, and then no chunk's files are asked for.
C38_ChunksPartitionArray ==
    /\ <>(batch.state = "done")
    /\ [](batch.state \in {"query", "done"} =>
             LET chunks == batch.chunks
             IN  /\ Flatten(chunks) = batch.array
                 /\ \A j \in 1..Len(chunks) :
                       /\ Len(chunks[j]) >= 1
                       /\ Len(chunks[j]) <= batch.size
                       /\ j < Len(chunks) => Len(chunks[j]) = batch.size
                 /\ batch.array = <<>> => chunks = <<>>)
    /\ [](batch.asked <= Len(batch.chunks))
    /\ [](batch.array = <<>> => batch.asked = 0)

\* an array longer than the chunk size and not a multiple of it was chunked,
\* the last chunk is short, and every chunk was asked for
C38_Witness ==
    /\ batch.state = "done"
    /\ batch.size > 1
    /\ Len(batch.array) > batch.size
    /\ Len(batch.chunks[Len(batch.chunks)]) < batch.size
    /\ batch.asked = Len(batch.chunks)

====
